---- MODULE Spec2Model ----
(***************************************************************************)
(* A model of go-plsql-statement-splitter's parser layer                   *)
(* (internal/parser/parser.go): the StatementListener that turns the       *)
(* parse-tree walker's enter/exit callbacks into statement records, the    *)
(* statement-type classifier, the deduplicator and the CustomErrorListener.*)
(***************************************************************************)
EXTENDS Integers, Sequences, FiniteSets, TLC

VARIABLES
    Statements,       \* StatementListener.Statements
    plsqlBlockDepth,  \* StatementListener.plsqlBlockDepth
    currentType,      \* StatementListener.currentType
    lastCall,         \* history: the callback made last and what it was given
    pc,               \* where the run is: "idle", "walk", "done", ...
    script,           \* ParseStringWithOptions: the input, an index of Scripts
    stack,            \* the walker: the rules entered and not yet exited
    cursor,           \* the walker: the first token no exited rule covers
    result,           \* ParseStringWithOptions: the statements returned
    syntaxErrors,     \* ParseStringWithOptions: the syntax errors returned
    err,              \* ParseStringWithOptions: the error value returned
    unitKinds,        \* history: for each top-level unit_statement, the rule it wraps
    seenRules,        \* history: the rules entered below the top-level statement
    dedupIn,          \* deduplicateStatements: the list given
    dedupOut,         \* deduplicateStatements: the list returned
    dedupAgain,       \* deduplicateStatements: the list returned for dedupOut
    Errors,           \* CustomErrorListener.Errors
    MaxErrors,        \* CustomErrorListener.MaxErrors
    SourceText,       \* CustomErrorListener.SourceText
    ContextLines,     \* CustomErrorListener.ContextLines
    reported,         \* history: the syntax errors the parser reported, in order
    madeWith,         \* history: the arguments the error listener was made with
    splitter,         \* the Splitter: its configuration
    api,              \* the Splitter method called
    splitInput,       \* the Splitter method's argument: the script text
    out,              \* what the Splitter method returned
    stmtText,         \* getDeterminedStatementType: the text given
    determinedType,   \* getDeterminedStatementType: the type returned
    parsedType        \* statement.Parse: the Type returned

listenerVars == <<Statements, plsqlBlockDepth, currentType>>
walkVars == <<script, stack, cursor, result, syntaxErrors, err, unitKinds, seenRules>>
dedupVars == <<dedupIn, dedupOut, dedupAgain>>
errVars == <<Errors, MaxErrors, SourceText, ContextLines, reported, madeWith>>
splitVars == <<splitter, api, splitInput, out>>
classifyVars == <<stmtText, determinedType, parsedType>>
vars == <<Statements, plsqlBlockDepth, currentType, lastCall, pc,
          script, stack, cursor, result, syntaxErrors, err, unitKinds, seenRules,
          dedupIn, dedupOut, dedupAgain,
          Errors, MaxErrors, SourceText, ContextLines, reported, madeWith,
          splitter, api, splitInput, out, stmtText, determinedType, parsedType>>

\* What each specification leaves alone.
notListener == <<pc, walkVars, dedupVars, errVars, splitVars, classifyVars>>
notWalk == <<dedupVars, errVars, splitVars, classifyVars>>
notDedup == <<listenerVars, lastCall, walkVars, errVars, splitVars, classifyVars>>
notErrors == <<listenerVars, lastCall, walkVars, dedupVars, splitVars, classifyVars>>
notClassify == <<listenerVars, lastCall, walkVars, dedupVars, errVars, splitVars>>

(***************************************************************************)
(* Bounds of the model.                                                    *)
(***************************************************************************)
MaxDepth == 2        \* the callback sequences keep |plsqlBlockDepth| <= MaxDepth
MaxStatements == 1   \* the callback sequences append at most this many records
MaxStack == 8        \* the walked trees nest at most this many rules (the root included)
MaxInput == 3        \* the lists given to deduplicateStatements hold at most this many records
MaxReports == 11     \* the parser reports at most this many syntax errors to one listener
MaxLines == 11       \* the sources whose context is extracted have at most this many lines
MaxRadius == 2       \* the listener is made with at most this many context lines

(***************************************************************************)
(* Strings: Go's strings.ToUpper, TrimSpace, HasPrefix and Contains, on    *)
(* ASCII text.                                                             *)
(***************************************************************************)
LowerLetters == "abcdefghijklmnopqrstuvwxyz"
UpperLetters == "ABCDEFGHIJKLMNOPQRSTUVWXYZ"

CharAt(s, i) == SubSeq(s, i, i)

UpperMap ==
    [c \in {CharAt(LowerLetters, i) : i \in 1..26} |->
        CharAt(UpperLetters, CHOOSE i \in 1..26 : CharAt(LowerLetters, i) = c)]
UpperChar(c) == IF c \in DOMAIN UpperMap THEN UpperMap[c] ELSE c

RECURSIVE ToUpper(_)
ToUpper(s) ==
    IF Len(s) = 0 THEN ""
    ELSE UpperChar(CharAt(s, 1)) \o ToUpper(SubSeq(s, 2, Len(s)))

IsSpace(c) == c \in {" ", "\t", "\n", "\r", "\f"}

RECURSIVE TrimLeft(_)
TrimLeft(s) ==
    IF Len(s) > 0 /\ IsSpace(CharAt(s, 1))
    THEN TrimLeft(SubSeq(s, 2, Len(s)))
    ELSE s

RECURSIVE TrimRight(_)
TrimRight(s) ==
    IF Len(s) > 0 /\ IsSpace(CharAt(s, Len(s)))
    THEN TrimRight(SubSeq(s, 1, Len(s) - 1))
    ELSE s

TrimSpace(s) == TrimRight(TrimLeft(s))

HasPrefix(s, p) == Len(s) >= Len(p) /\ SubSeq(s, 1, Len(p)) = p

Contains(s, p) ==
    \E i \in 1..(Len(s) - Len(p) + 1) : SubSeq(s, i, i + Len(p) - 1) = p

(***************************************************************************)
(* getDeterminedStatementType: the type tag of a statement's text.         *)
(***************************************************************************)
CreateType(text) ==
    IF Contains(text, "PACKAGE BODY") THEN "CREATE_PACKAGE_BODY"
    ELSE IF Contains(text, "PACKAGE") THEN "CREATE_PACKAGE"
    ELSE IF Contains(text, "PROCEDURE") THEN "CREATE_PROCEDURE"
    ELSE IF Contains(text, "FUNCTION") THEN "CREATE_FUNCTION"
    ELSE IF Contains(text, "TRIGGER") THEN "CREATE_TRIGGER"
    ELSE IF Contains(text, "TABLE") THEN "CREATE_TABLE"
    ELSE IF Contains(text, "VIEW") THEN "CREATE_VIEW"
    ELSE IF Contains(text, "INDEX") THEN "CREATE_INDEX"
    ELSE IF Contains(text, "SEQUENCE") THEN "CREATE_SEQUENCE"
    ELSE IF Contains(text, "TYPE BODY") THEN "CREATE_TYPE_BODY"
    ELSE IF Contains(text, "TYPE") THEN "CREATE_TYPE"
    ELSE IF Contains(text, "MATERIALIZED VIEW") THEN "CREATE_MATERIALIZED_VIEW"
    ELSE IF Contains(text, "SYNONYM") THEN "CREATE_SYNONYM"
    ELSE IF Contains(text, "DATABASE LINK") THEN "CREATE_DATABASE_LINK"
    ELSE "CREATE"

AlterType(text) ==
    IF Contains(text, "TABLE") THEN "ALTER_TABLE"
    ELSE IF Contains(text, "INDEX") THEN "ALTER_INDEX"
    ELSE IF Contains(text, "PROCEDURE") THEN "ALTER_PROCEDURE"
    ELSE IF Contains(text, "FUNCTION") THEN "ALTER_FUNCTION"
    ELSE IF Contains(text, "PACKAGE") THEN "ALTER_PACKAGE"
    ELSE IF Contains(text, "TRIGGER") THEN "ALTER_TRIGGER"
    ELSE IF Contains(text, "SEQUENCE") THEN "ALTER_SEQUENCE"
    ELSE "ALTER"

DropType(text) ==
    IF Contains(text, "TABLE") THEN "DROP_TABLE"
    ELSE IF Contains(text, "INDEX") THEN "DROP_INDEX"
    ELSE IF Contains(text, "PROCEDURE") THEN "DROP_PROCEDURE"
    ELSE IF Contains(text, "FUNCTION") THEN "DROP_FUNCTION"
    ELSE IF Contains(text, "PACKAGE") THEN "DROP_PACKAGE"
    ELSE IF Contains(text, "TRIGGER") THEN "DROP_TRIGGER"
    ELSE IF Contains(text, "SEQUENCE") THEN "DROP_SEQUENCE"
    ELSE IF Contains(text, "VIEW") THEN "DROP_VIEW"
    ELSE "DROP"

TypeOfUpperText(text) ==
    IF HasPrefix(text, "SELECT") THEN "SELECT"
    ELSE IF HasPrefix(text, "INSERT") THEN "INSERT"
    ELSE IF HasPrefix(text, "UPDATE") THEN "UPDATE"
    ELSE IF HasPrefix(text, "DELETE") THEN "DELETE"
    ELSE IF HasPrefix(text, "MERGE") THEN "MERGE"
    ELSE IF HasPrefix(text, "CREATE") THEN CreateType(text)
    ELSE IF HasPrefix(text, "ALTER") THEN AlterType(text)
    ELSE IF HasPrefix(text, "DROP") THEN DropType(text)
    ELSE IF HasPrefix(text, "TRUNCATE") THEN "TRUNCATE"
    ELSE IF HasPrefix(text, "GRANT") THEN "GRANT"
    ELSE IF HasPrefix(text, "REVOKE") THEN "REVOKE"
    ELSE IF HasPrefix(text, "COMMIT") THEN "COMMIT"
    ELSE IF HasPrefix(text, "ROLLBACK") THEN "ROLLBACK"
    ELSE IF HasPrefix(text, "SAVEPOINT") THEN "SAVEPOINT"
    ELSE IF HasPrefix(text, "BEGIN") \/ HasPrefix(text, "DECLARE") THEN "PLSQL_BLOCK"
    ELSE IF text = "/" THEN "SLASH"
    ELSE IF HasPrefix(text, "EXPLAIN PLAN") THEN "EXPLAIN_PLAN"
    ELSE IF HasPrefix(text, "COMMENT ON") THEN "COMMENT"
    ELSE IF HasPrefix(text, "SET TRANSACTION") THEN "SET_TRANSACTION"
    ELSE IF HasPrefix(text, "LOCK TABLE") THEN "LOCK_TABLE"
    ELSE IF HasPrefix(text, "EXECUTE") \/ HasPrefix(text, "EXEC") THEN "EXECUTE"
    ELSE IF HasPrefix(text, "SHOW") THEN "SHOW"
    ELSE IF HasPrefix(text, "DESC") \/ HasPrefix(text, "DESCRIBE") THEN "DESCRIBE"
    ELSE "UNKNOWN"

getDeterminedStatementType_NoTrim(text) == TypeOfUpperText(ToUpper(text))
getDeterminedStatementType(text) == TypeOfUpperText(ToUpper(TrimSpace(text)))

\* The type the transaction-control rule gives its record.
TransactionType_NoFold(content) ==
    LET upperContent == TrimSpace(content)
    IN  IF HasPrefix(upperContent, "COMMIT") THEN "COMMIT"
        ELSE IF HasPrefix(upperContent, "ROLLBACK") THEN "ROLLBACK"
        ELSE IF HasPrefix(upperContent, "SAVEPOINT") THEN "SAVEPOINT"
        ELSE "TRANSACTION"

TransactionType(content) ==
    LET upperContent == ToUpper(TrimSpace(content))
    IN  IF HasPrefix(upperContent, "COMMIT") THEN "COMMIT"
        ELSE IF HasPrefix(upperContent, "ROLLBACK") THEN "ROLLBACK"
        ELSE IF HasPrefix(upperContent, "SAVEPOINT") THEN "SAVEPOINT"
        ELSE "TRANSACTION"

(***************************************************************************)
(* Tokens and rule contexts. A context gives the rule's first and last     *)
(* token (either may be absent) and the text the token stream returns for  *)
(* the tokens from the first to the last.                                  *)
(***************************************************************************)
NilToken == [isNil |-> TRUE, line |-> 0, column |-> 0, text |-> ""]
Token(line, column, text) ==
    [isNil |-> FALSE, line |-> line, column |-> column, text |-> text]
Ctx(start, stop, content) == [start |-> start, stop |-> stop, content |-> content]
NoCtx == Ctx(NilToken, NilToken, "")

\* The contexts the callbacks are given when they are called in any order.
SampleCtxs ==
    { Ctx(Token(1, 0, "SELECT"), Token(1, 14, "employees"), "SELECT * FROM employees"),
      Ctx(Token(2, 0, "commit"), Token(2, 0, "commit"), "commit"),
      Ctx(Token(3, 0, "BEGIN"), Token(4, 0, "END"), "BEGIN COMMIT;\nEND"),
      Ctx(Token(3, 6, "SET"), Token(3, 22, "ONLY"), "SET TRANSACTION READ ONLY"),
      Ctx(Token(5, 0, "Rollback"), Token(5, 12, "sp1"), "Rollback TO sp1"),
      Ctx(Token(6, 2, "SAVEPOINT"), Token(6, 12, "sp1"), "SAVEPOINT sp1"),
      Ctx(NilToken, Token(1, 14, "employees"), ""),
      Ctx(Token(1, 0, "SELECT"), NilToken, "") }

(***************************************************************************)
(* StatementListener.                                                      *)
(***************************************************************************)
statementModel_StopColumn(ctx, stmtType) ==
    [Content     |-> ctx.content,
     StartLine   |-> ctx.start.line,
     EndLine     |-> ctx.stop.line,
     StartColumn |-> ctx.start.column,
     EndColumn   |-> ctx.stop.column,
     Type        |-> stmtType]

statementModel(ctx, stmtType) ==
    [Content     |-> ctx.content,
     StartLine   |-> ctx.start.line,
     EndLine     |-> ctx.stop.line,
     StartColumn |-> ctx.start.column,
     EndColumn   |-> ctx.stop.column + Len(ctx.stop.text),
     Type        |-> stmtType]

NewStatementListener ==
    /\ Statements = <<>>
    /\ currentType = ""
    /\ plsqlBlockDepth = 0

EnterUnit_statement(ctx) ==
    /\ Statements' =
         IF plsqlBlockDepth > 0 THEN Statements
         ELSE IF ctx.start.isNil \/ ctx.stop.isNil THEN Statements
         ELSE Append(Statements,
                     statementModel(ctx, getDeterminedStatementType(ctx.content)))
    /\ UNCHANGED <<plsqlBlockDepth, currentType>>

\* The callback without its depth check: statements inside a block get records.
EnterSql_statement_AtAnyDepth(ctx) ==
    /\ Statements' =
         IF ctx.start.isNil \/ ctx.stop.isNil THEN Statements
         ELSE Append(Statements,
                     statementModel(ctx, getDeterminedStatementType(ctx.content)))
    /\ UNCHANGED <<plsqlBlockDepth, currentType>>

EnterSql_statement(ctx) ==
    /\ Statements' =
         IF plsqlBlockDepth > 0 THEN Statements
         ELSE IF ctx.start.isNil \/ ctx.stop.isNil THEN Statements
         ELSE Append(Statements,
                     statementModel(ctx, getDeterminedStatementType(ctx.content)))
    /\ UNCHANGED <<plsqlBlockDepth, currentType>>

EnterCreate_procedure_body ==
    /\ currentType' = "CREATE_PROCEDURE"
    /\ plsqlBlockDepth' = plsqlBlockDepth + 1
    /\ UNCHANGED Statements

ExitCreate_procedure_body ==
    /\ plsqlBlockDepth' = plsqlBlockDepth - 1
    /\ UNCHANGED <<Statements, currentType>>

EnterCreate_function_body ==
    /\ currentType' = "CREATE_FUNCTION"
    /\ plsqlBlockDepth' = plsqlBlockDepth + 1
    /\ UNCHANGED Statements

ExitCreate_function_body ==
    /\ plsqlBlockDepth' = plsqlBlockDepth - 1
    /\ UNCHANGED <<Statements, currentType>>

EnterCreate_package ==
    /\ currentType' = "CREATE_PACKAGE"
    /\ plsqlBlockDepth' = plsqlBlockDepth + 1
    /\ UNCHANGED Statements

ExitCreate_package ==
    /\ plsqlBlockDepth' = plsqlBlockDepth - 1
    /\ UNCHANGED <<Statements, currentType>>

EnterCreate_package_body ==
    /\ currentType' = "CREATE_PACKAGE_BODY"
    /\ plsqlBlockDepth' = plsqlBlockDepth + 1
    /\ UNCHANGED Statements

ExitCreate_package_body ==
    /\ plsqlBlockDepth' = plsqlBlockDepth - 1
    /\ UNCHANGED <<Statements, currentType>>

EnterCreate_trigger ==
    /\ currentType' = "CREATE_TRIGGER"
    /\ plsqlBlockDepth' = plsqlBlockDepth + 1
    /\ UNCHANGED Statements

ExitCreate_trigger ==
    /\ plsqlBlockDepth' = plsqlBlockDepth - 1
    /\ UNCHANGED <<Statements, currentType>>

EnterCreate_type ==
    /\ currentType' = "CREATE_TYPE"
    /\ plsqlBlockDepth' = plsqlBlockDepth + 1
    /\ UNCHANGED Statements

ExitCreate_type ==
    /\ plsqlBlockDepth' = plsqlBlockDepth - 1
    /\ UNCHANGED <<Statements, currentType>>

EnterCreate_type_body ==
    /\ currentType' = "CREATE_TYPE_BODY"
    /\ plsqlBlockDepth' = plsqlBlockDepth + 1
    /\ UNCHANGED Statements

ExitCreate_type_body ==
    /\ plsqlBlockDepth' = plsqlBlockDepth - 1
    /\ UNCHANGED <<Statements, currentType>>

\* The callback checking its start token only.
EnterAnonymous_block_StartOnly(ctx) ==
    /\ plsqlBlockDepth' = plsqlBlockDepth + 1
    /\ Statements' =
         IF plsqlBlockDepth' > 1 THEN Statements
         ELSE IF ctx.start.isNil THEN Statements
         ELSE Append(Statements, statementModel(ctx, "PLSQL_BLOCK"))
    /\ UNCHANGED currentType

EnterAnonymous_block(ctx) ==
    /\ plsqlBlockDepth' = plsqlBlockDepth + 1
    /\ Statements' =
         IF plsqlBlockDepth' > 1 THEN Statements
         ELSE IF ctx.start.isNil \/ ctx.stop.isNil THEN Statements
         ELSE Append(Statements, statementModel(ctx, "PLSQL_BLOCK"))
    /\ UNCHANGED currentType

ExitAnonymous_block ==
    /\ plsqlBlockDepth' = IF plsqlBlockDepth - 1 < 0 THEN 0 ELSE plsqlBlockDepth - 1
    /\ UNCHANGED <<Statements, currentType>>

EnterTransaction_control_statements(ctx) ==
    /\ Statements' =
         IF plsqlBlockDepth > 0 THEN Statements
         ELSE IF ctx.start.isNil \/ ctx.stop.isNil THEN Statements
         ELSE Append(Statements, statementModel(ctx, TransactionType(ctx.content)))
    /\ UNCHANGED <<plsqlBlockDepth, currentType>>

EnterBlock ==
    /\ plsqlBlockDepth' = plsqlBlockDepth + 1
    /\ UNCHANGED <<Statements, currentType>>

\* An exit that resets the counter instead of decrementing it.
ExitBlock_Reset ==
    /\ plsqlBlockDepth' = 0
    /\ UNCHANGED <<Statements, currentType>>

ExitBlock ==
    /\ plsqlBlockDepth' = IF plsqlBlockDepth - 1 < 0 THEN 0 ELSE plsqlBlockDepth - 1
    /\ UNCHANGED <<Statements, currentType>>

EnterDeclare_block ==
    /\ plsqlBlockDepth' = plsqlBlockDepth + 1
    /\ UNCHANGED <<Statements, currentType>>

ExitDeclare_block ==
    /\ plsqlBlockDepth' = IF plsqlBlockDepth - 1 < 0 THEN 0 ELSE plsqlBlockDepth - 1
    /\ UNCHANGED <<Statements, currentType>>

(***************************************************************************)
(* The callback the walker makes for a rule: the listener's method for it, *)
(* or nothing for a rule the listener does not override.                   *)
(***************************************************************************)
EnterRule(rule, ctx) ==
    CASE rule = "unit_statement" -> EnterUnit_statement(ctx)
      [] rule = "sql_statement" -> EnterSql_statement(ctx)
      [] rule = "transaction_control_statements" ->
            EnterTransaction_control_statements(ctx)
      [] rule = "anonymous_block" -> EnterAnonymous_block(ctx)
      [] rule = "create_procedure_body" -> EnterCreate_procedure_body
      [] rule = "create_function_body" -> EnterCreate_function_body
      [] rule = "create_package" -> EnterCreate_package
      [] rule = "create_package_body" -> EnterCreate_package_body
      [] rule = "create_trigger" -> EnterCreate_trigger
      [] rule = "create_type" -> EnterCreate_type
      [] rule = "create_type_body" -> EnterCreate_type_body
      [] rule = "block" -> EnterBlock
      [] rule = "declare_block" -> EnterDeclare_block
      [] OTHER -> UNCHANGED listenerVars

ExitRule(rule) ==
    CASE rule = "anonymous_block" -> ExitAnonymous_block
      [] rule = "create_procedure_body" -> ExitCreate_procedure_body
      [] rule = "create_function_body" -> ExitCreate_function_body
      [] rule = "create_package" -> ExitCreate_package
      [] rule = "create_package_body" -> ExitCreate_package_body
      [] rule = "create_trigger" -> ExitCreate_trigger
      [] rule = "create_type" -> ExitCreate_type
      [] rule = "create_type_body" -> ExitCreate_type_body
      [] rule = "block" -> ExitBlock
      [] rule = "declare_block" -> ExitDeclare_block
      [] OTHER -> UNCHANGED listenerVars

Call(rule, phase, ctx) ==
    [rule |-> rule, phase |-> phase, ctx |-> ctx,
     depthBefore |-> plsqlBlockDepth, lenBefore |-> Len(Statements)]
NoCall == [rule |-> "none", phase |-> "none", ctx |-> NoCtx,
           depthBefore |-> 0, lenBefore |-> 0]

(***************************************************************************)
(* Spec: one StatementListener whose callbacks are made in any order, as   *)
(* its exported methods allow.                                             *)
(***************************************************************************)
EmittingRules == {"unit_statement", "sql_statement", "transaction_control_statements"}
CreateRules == {"create_procedure_body", "create_function_body", "create_package",
                "create_package_body", "create_trigger", "create_type",
                "create_type_body"}
BlockRules == CreateRules \cup {"anonymous_block", "block", "declare_block"}

WalkIdle ==
    /\ script = 0
    /\ stack = <<>>
    /\ cursor = 0
    /\ result = <<>>
    /\ syntaxErrors = <<>>
    /\ err = "nil"
    /\ unitKinds = <<>>
    /\ seenRules = {}

DedupIdle ==
    /\ dedupIn = <<>>
    /\ dedupOut = <<>>
    /\ dedupAgain = <<>>

ErrorsIdle ==
    /\ Errors = <<>>
    /\ MaxErrors = 0
    /\ SourceText = ""
    /\ ContextLines = 0
    /\ reported = <<>>
    /\ madeWith = <<>>

SplitIdle ==
    /\ splitter = <<>>
    /\ api = ""
    /\ splitInput = ""
    /\ out = <<>>

ClassifyIdle ==
    /\ stmtText = ""
    /\ determinedType = ""
    /\ parsedType = ""

Init ==
    /\ NewStatementListener
    /\ lastCall = NoCall
    /\ pc = "idle"
    /\ WalkIdle
    /\ DedupIdle
    /\ ClassifyIdle
    /\ ErrorsIdle
    /\ SplitIdle

CallEnterEmitting ==
    \E rule \in EmittingRules, ctx \in SampleCtxs :
        /\ EnterRule(rule, ctx)
        /\ Len(Statements') <= MaxStatements
        /\ lastCall' = Call(rule, "enter", ctx)
        /\ UNCHANGED notListener

CallEnterAnonymous_block ==
    \E ctx \in SampleCtxs :
        /\ plsqlBlockDepth < MaxDepth
        /\ EnterRule("anonymous_block", ctx)
        /\ Len(Statements') <= MaxStatements
        /\ lastCall' = Call("anonymous_block", "enter", ctx)
        /\ UNCHANGED notListener

CallEnterBlockOpening ==
    \E rule \in BlockRules \ {"anonymous_block"} :
        /\ plsqlBlockDepth < MaxDepth
        /\ EnterRule(rule, NoCtx)
        /\ lastCall' = Call(rule, "enter", NoCtx)
        /\ UNCHANGED notListener

CallExit ==
    \E rule \in BlockRules :
        /\ plsqlBlockDepth > -MaxDepth
        /\ ExitRule(rule)
        /\ lastCall' = Call(rule, "exit", NoCtx)
        /\ UNCHANGED notListener

Next ==
    \/ CallEnterEmitting
    \/ CallEnterAnonymous_block
    \/ CallEnterBlockOpening
    \/ CallExit

Spec == Init /\ [][Next]_vars

(***************************************************************************)
(* deduplicateStatements. The map is keyed by the record's position; Go    *)
(* iterates a map in an unspecified order and sort.Slice is not stable, so *)
(* the result is any ordering of the map's records that the comparison     *)
(* accepts as sorted: the operator gives the set of the possible results.  *)
(***************************************************************************)
PositionKey(stmt) == <<stmt.StartLine, stmt.StartColumn, stmt.EndLine, stmt.EndColumn>>

MapPut(m, key, stmt) ==
    [k \in DOMAIN m \cup {key} |-> IF k = key THEN stmt ELSE m[k]]

\* The current record has a more specific type than the existing one.
HasMoreSpecificType_Never(stmt, existing) == FALSE
HasMoreSpecificType(stmt, existing) ==
    existing.Type = "UNKNOWN" /\ stmt.Type # "UNKNOWN"

RECURSIVE uniqueMapFrom(_, _, _)
uniqueMapFrom(statements, i, m) ==
    IF i > Len(statements) THEN m
    ELSE LET stmt == statements[i]
             key == PositionKey(stmt)
             exists == key \in DOMAIN m
         IN  uniqueMapFrom(statements, i + 1,
                 IF ~exists \/ (exists /\ HasMoreSpecificType(stmt, m[key]))
                 THEN MapPut(m, key, stmt)
                 ELSE m)

uniqueMap(statements) == uniqueMapFrom(statements, 1, <<>>)

\* The comparison given to sort.Slice.
StartsBefore_LineOnly(a, b) == a.StartLine < b.StartLine
StartsBefore(a, b) ==
    IF a.StartLine # b.StartLine THEN a.StartLine < b.StartLine
    ELSE a.StartColumn < b.StartColumn

\* The orderings of the records of map m, one per key.
MapOrders(m) ==
    LET n == Cardinality(DOMAIN m)
    IN  { [i \in 1..n |-> m[f[i]]] :
            f \in { g \in [1..n -> DOMAIN m] : \A i, j \in 1..n : i # j => g[i] # g[j] } }

IsSortedByStart(list) ==
    \A i, j \in 1..Len(list) : i < j => ~StartsBefore(list[j], list[i])

deduplicateStatements(statements) ==
    IF Len(statements) = 0 THEN {statements}
    ELSE { list \in MapOrders(uniqueMap(statements)) : IsSortedByStart(list) }

(***************************************************************************)
(* CustomErrorListener. The parser calls SyntaxError once for each syntax  *)
(* error it reports; the listener keeps the first MaxErrors of them.       *)
(***************************************************************************)
\* strings.Split(s, "\n")
RECURSIVE SplitFrom(_, _, _)
SplitFrom(s, i, from) ==
    IF i > Len(s) THEN <<SubSeq(s, from, Len(s))>>
    ELSE IF CharAt(s, i) = "\n"
         THEN <<SubSeq(s, from, i - 1)>> \o SplitFrom(s, i + 1, i + 1)
         ELSE SplitFrom(s, i + 1, from)

Split(s) == SplitFrom(s, 1, 1)

\* fmt.Sprintf("%d", n) for n >= 0
Digits == <<"0", "1", "2", "3", "4", "5", "6", "7", "8", "9">>

RECURSIVE Itoa(_)
Itoa(n) == IF n < 10 THEN Digits[n + 1] ELSE Itoa(n \div 10) \o Digits[(n % 10) + 1]

\* strings.Repeat(" ", n)
RECURSIVE Spaces(_)
Spaces(n) == IF n <= 0 THEN "" ELSE " " \o Spaces(n - 1)

\* fmt.Sprintf("%*d |", padding, i)
LineNumber(padding, i) == Spaces(padding - Len(Itoa(i))) \o Itoa(i) \o " |"

RECURSIVE contextFrom_MarkerAtStart(_, _, _, _, _, _)
contextFrom_MarkerAtStart(lines, i, endLine, padding, line, column) ==
    IF i > endLine THEN ""
    ELSE LET lineContent == lines[i]
             markerPosition == padding + 3
             marker == Spaces(markerPosition) \o "^\n"
         IN  LineNumber(padding, i) \o " " \o lineContent \o "\n"
                \o (IF i = line THEN marker ELSE "")
                \o contextFrom_MarkerAtStart(lines, i + 1, endLine, padding, line, column)

RECURSIVE contextFrom(_, _, _, _, _, _)
contextFrom(lines, i, endLine, padding, line, column) ==
    IF i > endLine THEN ""
    ELSE LET lineContent == lines[i]
             markerPosition == padding + 3
             marker == IF column > 0 /\ column <= Len(lineContent)
                       THEN Spaces(markerPosition + column - 1) \o "^\n"
                       ELSE Spaces(markerPosition) \o "^\n"
         IN  LineNumber(padding, i) \o " " \o lineContent \o "\n"
                \o (IF i = line THEN marker ELSE "")
                \o contextFrom(lines, i + 1, endLine, padding, line, column)

extractErrorContext_After(line, column) ==
    LET lines == Split(SourceText)
    IN  IF line <= 0 \/ line > Len(lines) THEN ""
        ELSE LET endLine == IF ContextLines = 0 THEN line
                            ELSE IF line + ContextLines > Len(lines) THEN Len(lines)
                            ELSE line + ContextLines
             IN  contextFrom(lines, line, endLine, Len(Itoa(endLine)), line, column)

extractErrorContext_Before(line, column) ==
    LET lines == Split(SourceText)
    IN  IF line <= 0 \/ line > Len(lines) THEN ""
        ELSE LET startLine == IF ContextLines = 0 THEN line
                              ELSE IF line - ContextLines < 1 THEN 1
                              ELSE line - ContextLines
             IN  contextFrom(lines, startLine, line, Len(Itoa(line)), line, column)

extractErrorContext(line, column) ==
    LET lines == Split(SourceText)
    IN  IF line <= 0 \/ line > Len(lines) THEN ""
        ELSE LET startLine == IF ContextLines = 0 THEN line
                              ELSE IF line - ContextLines < 1 THEN 1
                              ELSE line - ContextLines
                 endLine == IF ContextLines = 0 THEN line
                            ELSE IF line + ContextLines > Len(lines) THEN Len(lines)
                            ELSE line + ContextLines
             IN  contextFrom(lines, startLine, endLine, Len(Itoa(endLine)), line, column)

DefaultMaxErrors == 10

\* The fields of the listener NewCustomErrorListener returns.
CustomErrorListener(maxErrors, sourceText, contextLines) ==
    [Errors       |-> <<>>,
     MaxErrors    |-> IF maxErrors <= 0 THEN DefaultMaxErrors ELSE maxErrors,
     SourceText   |-> sourceText,
     ContextLines |-> IF contextLines < 0 THEN 0 ELSE contextLines]

NewCustomErrorListener(maxErrors, sourceText, contextLines) ==
    LET l == CustomErrorListener(maxErrors, sourceText, contextLines)
    IN  /\ Errors = l.Errors
        /\ MaxErrors = l.MaxErrors
        /\ SourceText = l.SourceText
        /\ ContextLines = l.ContextLines

NestedBlockHint ==
    " - This might be an issue with nested PL/SQL blocks. Check the block structure and ensure BEGIN/END pairs match."

\* The listener with a limit that lets one error too many in.
SyntaxError_OneTooMany(offendingSymbol, line, column, msg) ==
    IF Len(Errors) > MaxErrors THEN UNCHANGED Errors
    ELSE Errors' = Append(Errors,
            [Line |-> line, Column |-> column, Message |-> msg,
             TokenText |-> IF offendingSymbol.isNil THEN "" ELSE offendingSymbol.text,
             Context |-> ""])

\* The listener that extracts a context whether or not it has a source text.
SyntaxError_NoSourceCheck(offendingSymbol, line, column, msg) ==
    IF Len(Errors) >= MaxErrors THEN UNCHANGED Errors
    ELSE Errors' = Append(Errors,
            [Line |-> line, Column |-> column, Message |-> msg,
             TokenText |-> IF offendingSymbol.isNil THEN "" ELSE offendingSymbol.text,
             Context |-> extractErrorContext(line, column)])

SyntaxError(offendingSymbol, line, column, msg) ==
    IF Len(Errors) >= MaxErrors THEN UNCHANGED Errors
    ELSE LET tokenText == IF offendingSymbol.isNil THEN "" ELSE offendingSymbol.text
             enhancedMsg ==
                 IF Contains(msg, "no viable alternative") /\ Contains(tokenText, "BEGIN")
                 THEN msg \o NestedBlockHint
                 ELSE msg
             context == IF SourceText # "" THEN extractErrorContext(line, column) ELSE ""
         IN  Errors' = Append(Errors,
                 [Line      |-> line,
                  Column    |-> column,
                  Message   |-> enhancedMsg,
                  TokenText |-> tokenText,
                  Context   |-> context])

\* What the parser reports: the offending symbol, its position, the message.
Report(offendingSymbol, line, column, msg) ==
    [offendingSymbol |-> offendingSymbol, line |-> line, column |-> column, msg |-> msg]

SampleReports ==
    { Report(Token(1, 14, ";"), 1, 14, "mismatched input ';'"),
      Report(Token(2, 0, "BEGIN"), 2, 0, "no viable alternative at input 'BEGIN'") }

\* The (maxErrors, sourceText, contextLines) the listener is made with.
SampleOptions ==
    { <<m, o[1], o[2]>> :
        m \in {-1, 0, 1, 3},
        o \in { <<"", 3>>, <<"SELECT * FROM ;\nBEGIN\nEND", -1>>, <<"SELECT * FROM ;\nBEGIN\nEND", 1>> } }

InitErrors ==
    /\ NewStatementListener
    /\ lastCall = NoCall
    /\ pc = "errors"
    /\ WalkIdle
    /\ DedupIdle
    /\ ClassifyIdle
    /\ SplitIdle
    /\ \E o \in SampleOptions :
          /\ NewCustomErrorListener(o[1], o[2], o[3])
          /\ madeWith = o
    /\ reported = <<>>

ReportSyntaxError ==
    /\ pc = "errors"
    /\ Len(reported) < MaxReports
    /\ \E r \in SampleReports :
          /\ SyntaxError(r.offendingSymbol, r.line, r.column, r.msg)
          /\ reported' = Append(reported, r)
    /\ UNCHANGED <<pc, MaxErrors, SourceText, ContextLines, madeWith, notErrors>>

NextErrors == ReportSyntaxError

SpecErrors == InitErrors /\ [][NextErrors]_vars

(***************************************************************************)
(* The scripts parsed. Each is given by its lines of tokens; the tokens of *)
(* a line are one space apart, the first at column 0, and lines are        *)
(* numbered from 1, as the lexer reports them.                             *)
(***************************************************************************)
Scripts ==
    << \* two plain statements on one line
       << <<"SELECT", "x", ";", "commit", ";">> >>,
       \* an anonymous block
       << <<"BEGIN">>,
          <<"UPDATE", "t", ";", "COMMIT", ";">>,
          <<"END", ";">> >>,
       \* a procedure with nested blocks
       << <<"CREATE", "PROCEDURE", "p", "AS", "BEGIN">>,
          <<"DECLARE", "n", "INT", ";", "BEGIN", "UPDATE", "t", ";", "COMMIT", ";", "END", ";">>,
          <<"END", ";">> >>,
       \* a function whose name holds the word procedure, then a block
       << <<"create", "function", "procedure_count", "return", "int", "as">>,
          <<"begin", "return", "1", ";", "end", ";">>,
          <<"begin", "rollback", ";", "end">> >>,
       \* a procedure with nested blocks whose name holds the word package
       << <<"CREATE", "PROCEDURE", "load_package", "AS", "BEGIN">>,
          <<"DECLARE", "n", "INT", ";", "BEGIN", "UPDATE", "t", ";", "COMMIT", ";", "END", ";">>,
          <<"END", ";">> >>,
       \* a package specification
       << <<"CREATE", "PACKAGE", "k", "AS", "END", ";">> >>,
       \* a query without its table name
       << <<"SELECT", "*", "FROM", ";">> >>,
       \* two statements, each with a syntax error
       << <<"SELECT", "*", "FROM", ";">>,
          <<"UPDATE", "SET", ";">> >> >>

\* The syntax errors the parser reports for each script, in order.
ScriptErrors ==
    << <<>>, <<>>, <<>>, <<>>, <<>>, <<>>,
       << Report(Token(1, 14, ";"), 1, 14, "mismatched input ';'") >>,
       << Report(Token(1, 14, ";"), 1, 14, "mismatched input ';'"),
          Report(Token(2, 7, "SET"), 2, 7, "no viable alternative at input 'UPDATE SET'") >> >>

RECURSIVE LineTokens(_, _, _)
LineTokens(words, line, column) ==
    IF words = <<>> THEN <<>>
    ELSE <<Token(line, column, Head(words))>>
         \o LineTokens(Tail(words), line, column + Len(Head(words)) + 1)

RECURSIVE TokensFrom(_, _)
TokensFrom(lines, line) ==
    IF lines = <<>> THEN <<>>
    ELSE LineTokens(Head(lines), line, 0) \o TokensFrom(Tail(lines), line + 1)

\* The token stream of script s.
Tokens(s) == TokensFrom(Scripts[s], 1)

\* CommonTokenStream.GetTextFromTokens: the source text from token i to
\* token j, the white space between the tokens included.
RECURSIVE GetTextFromTokens(_, _, _)
GetTextFromTokens(toks, i, j) ==
    IF i >= j THEN toks[i].text
    ELSE toks[i].text
         \o (IF toks[i + 1].line = toks[i].line THEN " " ELSE "\n")
         \o GetTextFromTokens(toks, i + 1, j)

\* The context of a rule that spans tokens i..j of the token stream.
RuleCtx(toks, i, j) == Ctx(toks[i], toks[j], GetTextFromTokens(toks, i, j))

(***************************************************************************)
(* The parse trees walked. The grammar is not part of the sources; what is *)
(* modelled of it is which rule may be a child of which, the keywords a    *)
(* rule starts with, and that a rule spans a whole statement or block:     *)
(* BEGIN (and PACKAGE) open a block, END closes one, and a rule neither    *)
(* ends inside a block it began nor runs past a semicolon of its own level.*)
(***************************************************************************)
Keyword(toks, i) == IF i \in 1..Len(toks) THEN ToUpper(toks[i].text) ELSE ""

WalkedCreateRules == CreateRules \ {"create_type_body"}
NestedRules == {"block", "declare_block", "anonymous_block", "sql_statement"}

ChildRules(parent) ==
    CASE parent = "sql_script" -> {"unit_statement"}
      [] parent = "unit_statement" ->
            WalkedCreateRules \cup {"anonymous_block", "transaction_control_statements"}
      [] parent \in BlockRules -> NestedRules
      [] parent = "sql_statement" -> {"transaction_control_statements"}
      [] OTHER -> {}

\* A rule that is its parent's only alternative spans the parent's tokens.
SameSpan(parent) == parent \in {"unit_statement", "sql_statement"}

StartsRule(rule, toks, i) ==
    LET k == Keyword(toks, i)
        k2 == Keyword(toks, i + 1)
        k3 == Keyword(toks, i + 2)
    IN  CASE rule = "unit_statement" ->
                k \in {"SELECT", "UPDATE", "COMMIT", "ROLLBACK", "BEGIN", "DECLARE", "CREATE"}
          [] rule = "sql_statement" -> k \in {"SELECT", "UPDATE", "COMMIT", "ROLLBACK"}
          [] rule = "transaction_control_statements" -> k \in {"COMMIT", "ROLLBACK"}
          [] rule = "anonymous_block" -> k \in {"BEGIN", "DECLARE"}
          [] rule = "block" -> k \in {"BEGIN", "DECLARE"}
          [] rule = "declare_block" -> k = "DECLARE"
          [] rule = "create_procedure_body" -> k = "CREATE" /\ k2 = "PROCEDURE"
          [] rule = "create_function_body" -> k = "CREATE" /\ k2 = "FUNCTION"
          [] rule = "create_package" -> k = "CREATE" /\ k2 = "PACKAGE" /\ k3 # "BODY"
          [] rule = "create_package_body" -> k = "CREATE" /\ k2 = "PACKAGE" /\ k3 = "BODY"
          [] rule = "create_trigger" -> k = "CREATE" /\ k2 = "TRIGGER"
          [] rule = "create_type" -> k = "CREATE" /\ k2 = "TYPE"
          [] OTHER -> FALSE

\* The blocks open before token k, and after it.
OpenBefore(toks, k) ==
    Cardinality({m \in 1..(k - 1) : Keyword(toks, m) \in {"BEGIN", "PACKAGE"}})
    - Cardinality({m \in 1..(k - 1) : Keyword(toks, m) = "END"})
OpenAfter(toks, k) == OpenBefore(toks, k + 1)

EndsRule(toks, i, j) ==
    /\ Keyword(toks, j) # ";"
    /\ j = Len(toks) \/ Keyword(toks, j + 1) = ";"
    /\ OpenAfter(toks, j) = OpenBefore(toks, i)
    /\ \A k \in i..j : OpenAfter(toks, k) >= OpenBefore(toks, i)
    /\ Keyword(toks, i) \in {"BEGIN", "DECLARE"} => Keyword(toks, j) = "END"
    /\ \A k \in i..(j - 1) :
          (Keyword(toks, k) = ";" /\ OpenBefore(toks, k) = OpenBefore(toks, i)) =>
              \* the declarations of a DECLARE section end in semicolons
              /\ Keyword(toks, i) = "DECLARE"
              /\ \A m \in i..k : Keyword(toks, m) # "BEGIN"

(***************************************************************************)
(* SpecWalk: ParseStringWithOptions on one script. The walker enters and   *)
(* exits the rules of a parse tree in pre/post-order, calling the listener *)
(* at each; when the root is left, the statements are deduplicated and     *)
(* returned.                                                               *)
(***************************************************************************)
Frame(rule, start, stop) == [rule |-> rule, start |-> start, stop |-> stop]

\* The public Statement of an internal statementModel.
Statement(stmt) ==
    [Content     |-> stmt.Content,
     StartLine   |-> stmt.StartLine,
     EndLine     |-> stmt.EndLine,
     StartColumn |-> stmt.StartColumn,
     EndColumn   |-> stmt.EndColumn,
     Type        |-> stmt.Type]

\* The input string of a script.
Input(s) == GetTextFromTokens(Tokens(s), 1, Len(Tokens(s)))

\* The calls of ParseStringWithOptions: <<script, maxErrors, contextLines>>.
\* ParseString is the call with maxErrors 1 and contextLines 3.
SampleParses ==
    { <<s, 1, 3>> : s \in 1..Len(Scripts) }
        \cup { <<7, 0, 0>>, <<8, 0, 3>>, <<8, 3, 1>> }

\* ParseStringWithOptions installs the bail error strategy.
UsesBailStrategy == madeWith[1] <= 1

InitWalk ==
    /\ NewStatementListener
    /\ lastCall = NoCall
    /\ pc = "parse"
    /\ \E p \in SampleParses :
          /\ script = p[1]
          /\ NewCustomErrorListener(p[2], Input(p[1]), p[3])
          /\ madeWith = <<p[2], Input(p[1]), p[3]>>
    /\ reported = <<>>
    /\ stack = <<Frame("sql_script", 1, Len(Tokens(script)))>>
    /\ cursor = 1
    /\ result = <<>>
    /\ syntaxErrors = <<>>
    /\ err = "nil"
    /\ unitKinds = <<>>
    /\ seenRules = {}
    /\ DedupIdle
    /\ ClassifyIdle
    /\ SplitIdle

\* parser.Sql_script(): the parser reports the script's next syntax error to
\* the listener.
ParserReports ==
    /\ pc = "parse"
    /\ Len(reported) < Len(ScriptErrors[script])
    /\ LET r == ScriptErrors[script][Len(reported) + 1]
       IN  /\ SyntaxError(r.offendingSymbol, r.line, r.column, r.msg)
           /\ reported' = Append(reported, r)
    /\ UNCHANGED <<pc, MaxErrors, SourceText, ContextLines, madeWith,
                   listenerVars, lastCall, walkVars, dedupVars, splitVars, classifyVars>>

\* parser.Sql_script() returns the tree: every error is reported, or the bail
\* strategy gave up after an error.
ParserReturnsTree ==
    /\ pc = "parse"
    /\ \/ Len(reported) = Len(ScriptErrors[script])
       \/ UsesBailStrategy /\ Len(reported) >= 1
    /\ pc' = "walk"
    /\ UNCHANGED <<listenerVars, lastCall, walkVars, notWalk>>

WalkEnter ==
    /\ pc = "walk"
    /\ Len(stack) < MaxStack
    /\ LET toks == Tokens(script)
           parent == stack[Len(stack)]
       IN  \E rule \in ChildRules(parent.rule), i \in 1..Len(toks), j \in 1..Len(toks) :
             /\ cursor <= i /\ i <= j /\ j <= parent.stop
             /\ IF SameSpan(parent.rule)
                THEN i = parent.start /\ j = parent.stop
                ELSE parent.rule = "sql_script" \/ i > parent.start
             /\ StartsRule(rule, toks, i)
             /\ EndsRule(toks, i, j)
             /\ EnterRule(rule, RuleCtx(toks, i, j))
             /\ lastCall' = Call(rule, "enter", RuleCtx(toks, i, j))
             /\ stack' = Append(stack, Frame(rule, i, j))
             /\ cursor' = i
             /\ unitKinds' =
                  IF parent.rule = "sql_script" THEN Append(unitKinds, "none")
                  ELSE IF Len(stack) = 2
                       THEN [unitKinds EXCEPT ![Len(unitKinds)] = rule]
                       ELSE unitKinds
             /\ seenRules' = IF Len(stack) > 2 THEN seenRules \cup {rule} ELSE seenRules
             /\ UNCHANGED <<pc, script, result, syntaxErrors, err, notWalk>>

WalkExit ==
    /\ pc = "walk"
    /\ Len(stack) > 1
    /\ LET top == stack[Len(stack)]
       IN  /\ ExitRule(top.rule)
           /\ lastCall' = Call(top.rule, "exit", NoCtx)
           /\ stack' = SubSeq(stack, 1, Len(stack) - 1)
           /\ cursor' = top.stop + 1
    /\ UNCHANGED <<pc, script, result, syntaxErrors, err, unitKinds, seenRules, notWalk>>

\* A return that drops the statements when syntax errors were captured.
ReturnStatements_ErrorsOnly ==
    /\ pc = "walk"
    /\ Len(stack) = 1
    /\ \E statements \in deduplicateStatements(Statements) :
          result' = IF Errors # <<>> THEN <<>>
                    ELSE [i \in 1..Len(statements) |-> Statement(statements[i])]
    /\ syntaxErrors' = Errors
    /\ err' = "nil"
    /\ pc' = "done"
    /\ stack' = <<>>
    /\ UNCHANGED <<listenerVars, lastCall, script, cursor, unitKinds, seenRules, notWalk>>

\* The walk is over: deduplicate, convert and return.
ReturnStatements ==
    /\ pc = "walk"
    /\ Len(stack) = 1
    /\ \E statements \in deduplicateStatements(Statements) :
          result' = [i \in 1..Len(statements) |-> Statement(statements[i])]
    /\ syntaxErrors' = Errors
    /\ err' = "nil"
    /\ pc' = "done"
    /\ stack' = <<>>
    /\ UNCHANGED <<listenerVars, lastCall, script, cursor, unitKinds, seenRules, notWalk>>

NextWalk ==
    \/ ParserReports
    \/ ParserReturnsTree
    \/ WalkEnter
    \/ WalkExit
    \/ ReturnStatements

SpecWalk == InitWalk /\ [][NextWalk]_vars

(***************************************************************************)
(* The Splitter (pkg/splitter): NewSplitter with its options, SplitString  *)
(* and GetSyntaxErrors, which call ParseStringWithOptions, and             *)
(* statement.Parse (pkg/statement).                                        *)
(***************************************************************************)
\* The statement types of pkg/statement.
Types ==
    { "UNKNOWN", "SELECT", "INSERT", "UPDATE", "DELETE", "MERGE",
      "CREATE_TABLE", "CREATE_VIEW", "CREATE_INDEX", "CREATE_SEQUENCE",
      "CREATE_PROCEDURE", "CREATE_FUNCTION", "CREATE_PACKAGE", "CREATE_PACKAGE_BODY",
      "CREATE_TRIGGER", "CREATE_TYPE", "CREATE_TYPE_BODY", "CREATE_MATERIALIZED_VIEW",
      "CREATE_SYNONYM", "CREATE_DATABASE_LINK", "CREATE",
      "ALTER_TABLE", "ALTER_INDEX", "ALTER_PROCEDURE", "ALTER_FUNCTION",
      "ALTER_PACKAGE", "ALTER_TRIGGER", "ALTER_SEQUENCE", "ALTER",
      "DROP_TABLE", "DROP_INDEX", "DROP_PROCEDURE", "DROP_FUNCTION", "DROP_PACKAGE",
      "DROP_TRIGGER", "DROP_SEQUENCE", "DROP_VIEW", "DROP",
      "TRUNCATE", "GRANT", "REVOKE", "COMMIT", "ROLLBACK", "SAVEPOINT", "TRANSACTION",
      "PLSQL_BLOCK", "SLASH", "EXPLAIN_PLAN", "COMMENT", "SET_TRANSACTION",
      "LOCK_TABLE", "EXECUTE", "SHOW", "DESCRIBE" }

\* statement.Parse: the cases of the switch, label to Type returned.
ParseSwitch ==
       ("SELECT" :> "SELECT")
    @@ ("INSERT" :> "INSERT")
    @@ ("UPDATE" :> "UPDATE")
    @@ ("DELETE" :> "DELETE")
    @@ ("MERGE" :> "MERGE")
    @@ ("CREATE_TABLE" :> "CREATE_TABLE")
    @@ ("CREATE_VIEW" :> "CREATE_VIEW")
    @@ ("CREATE_INDEX" :> "CREATE_INDEX")
    @@ ("CREATE_SEQUENCE" :> "CREATE_SEQUENCE")
    @@ ("CREATE_PROCEDURE" :> "CREATE_PROCEDURE")
    @@ ("CREATE_FUNCTION" :> "CREATE_FUNCTION")
    @@ ("CREATE_PACKAGE" :> "CREATE_PACKAGE")
    @@ ("CREATE_PACKAGE_BODY" :> "CREATE_PACKAGE_BODY")
    @@ ("CREATE_TRIGGER" :> "CREATE_TRIGGER")
    @@ ("CREATE_TYPE" :> "CREATE_TYPE")
    @@ ("CREATE_TYPE_BODY" :> "CREATE_TYPE_BODY")
    @@ ("CREATE_MATERIALIZED_VIEW" :> "CREATE_MATERIALIZED_VIEW")
    @@ ("CREATE_SYNONYM" :> "CREATE_SYNONYM")
    @@ ("CREATE_DATABASE_LINK" :> "CREATE_DATABASE_LINK")
    @@ ("CREATE" :> "CREATE")
    @@ ("ALTER_TABLE" :> "ALTER_TABLE")
    @@ ("ALTER_INDEX" :> "ALTER_INDEX")
    @@ ("ALTER_PROCEDURE" :> "ALTER_PROCEDURE")
    @@ ("ALTER_FUNCTION" :> "ALTER_FUNCTION")
    @@ ("ALTER_PACKAGE" :> "ALTER_PACKAGE")
    @@ ("ALTER_TRIGGER" :> "ALTER_TRIGGER")
    @@ ("ALTER_SEQUENCE" :> "ALTER_SEQUENCE")
    @@ ("ALTER" :> "ALTER")
    @@ ("DROP_TABLE" :> "DROP_TABLE")
    @@ ("DROP_INDEX" :> "DROP_INDEX")
    @@ ("DROP_PROCEDURE" :> "DROP_PROCEDURE")
    @@ ("DROP_FUNCTION" :> "DROP_FUNCTION")
    @@ ("DROP_PACKAGE" :> "DROP_PACKAGE")
    @@ ("DROP_TRIGGER" :> "DROP_TRIGGER")
    @@ ("DROP_SEQUENCE" :> "DROP_SEQUENCE")
    @@ ("DROP_VIEW" :> "DROP_VIEW")
    @@ ("DROP" :> "DROP")
    @@ ("TRUNCATE" :> "TRUNCATE")
    @@ ("GRANT" :> "GRANT")
    @@ ("REVOKE" :> "REVOKE")
    @@ ("COMMIT" :> "COMMIT")
    @@ ("ROLLBACK" :> "ROLLBACK")
    @@ ("SAVEPOINT" :> "SAVEPOINT")
    @@ ("TRANSACTION" :> "TRANSACTION")
    @@ ("PLSQL_BLOCK" :> "PLSQL_BLOCK")
    @@ ("SLASH" :> "SLASH")
    @@ ("EXPLAIN_PLAN" :> "EXPLAIN_PLAN")
    @@ ("COMMENT" :> "COMMENT")
    @@ ("SET_TRANSACTION" :> "SET_TRANSACTION")
    @@ ("LOCK_TABLE" :> "LOCK_TABLE")
    @@ ("EXECUTE" :> "EXECUTE")
    @@ ("SHOW" :> "SHOW")
    @@ ("DESCRIBE" :> "DESCRIBE")

\* A switch without the case for TRANSACTION.
Parse_NoTransaction(s) ==
    LET label == ToUpper(s)
    IN  IF label \in DOMAIN ParseSwitch \ {"TRANSACTION"} THEN ParseSwitch[label]
        ELSE "UNKNOWN"

\* statement.Parse
Parse(s) ==
    LET label == ToUpper(s)
    IN  IF label \in DOMAIN ParseSwitch THEN ParseSwitch[label] ELSE "UNKNOWN"

\* Type.String
String(st) == st

Option(name, value) == [name |-> name, value |-> value]
WithPositionInfo(include) == Option("WithPositionInfo", include)
WithVerboseErrors(verbose) == Option("WithVerboseErrors", verbose)
WithMaxErrors(max) == Option("WithMaxErrors", max)
WithErrorContext(include) == Option("WithErrorContext", include)
WithErrorStatement(include) == Option("WithErrorStatement", include)
WithErrorContextLines(lines) == Option("WithErrorContextLines", lines)

\* option(s)
Apply(option, s) ==
    CASE option.name = "WithPositionInfo" -> [s EXCEPT !.includePosition = option.value]
      [] option.name = "WithVerboseErrors" -> [s EXCEPT !.verboseErrors = option.value]
      [] option.name = "WithMaxErrors" -> [s EXCEPT !.maxErrors = option.value]
      [] option.name = "WithErrorContext" -> [s EXCEPT !.includeContext = option.value]
      [] option.name = "WithErrorStatement" -> [s EXCEPT !.includeErrorStatement = option.value]
      [] option.name = "WithErrorContextLines" ->
            IF option.value >= 0 THEN [s EXCEPT !.contextLines = option.value] ELSE s

RECURSIVE ApplyAll(_, _)
ApplyAll(options, s) ==
    IF options = <<>> THEN s ELSE ApplyAll(Tail(options), Apply(Head(options), s))

NewSplitter(options) ==
    ApplyAll(options,
             [includePosition       |-> TRUE,
              verboseErrors         |-> FALSE,
              maxErrors             |-> 1,
              includeContext        |-> FALSE,
              includeErrorStatement |-> FALSE,
              contextLines          |-> 3])

\* GetAllSyntaxErrors: the temporary splitter it makes from the receiver s.
AllErrorsLimit == 9999
TempSplitter(s) ==
    NewSplitter(<<WithMaxErrors(AllErrorsLimit),
                  WithErrorStatement(s.includeErrorStatement),
                  WithErrorContext(s.includeContext),
                  WithErrorContextLines(s.contextLines)>>)

\* A temporary splitter that keeps the receiver's maxErrors.
Callee_Receiver(s, method) == s
\* The splitter whose GetSyntaxErrors or SplitString body runs for a call of
\* method on s.
Callee(s, method) == IF method = "GetAllSyntaxErrors" THEN TempSplitter(s) ELSE s

\* The option lists the splitters are made with.
SampleOptionLists ==
    { <<>>,
      <<WithVerboseErrors(TRUE), WithMaxErrors(3), WithErrorContext(TRUE), WithErrorStatement(TRUE)>>,
      <<WithVerboseErrors(TRUE), WithMaxErrors(0)>>,
      <<WithMaxErrors(3), WithErrorContextLines(0), WithErrorStatement(TRUE)>>,
      <<WithPositionInfo(FALSE), WithErrorContextLines(1), WithErrorContextLines(-1)>> }

\* The scripts given to the Splitter, and inputs of white space only.
SplitScripts == {1, 7, 8}
BlankInputs == { "", "  ", " \n\t " }

\* strings.Join(list, "\n")
RECURSIVE Join(_)
Join(list) ==
    IF list = <<>> THEN ""
    ELSE IF Len(list) = 1 THEN list[1]
    ELSE list[1] \o "\n" \o Join(Tail(list))

\* A Go slice: nil, or the list of its items.
NilSlice == [isNil |-> TRUE, items |-> <<>>]
Slice(items) == [isNil |-> FALSE, items |-> items]

\* A Go error value: nil, an error made by fmt.Errorf, or a *SyntaxError.
NilError == [isNil |-> TRUE]
Errorf(message) == [isNil |-> FALSE, message |-> message]
SyntaxErrorPointer(e) == [isNil |-> FALSE, syntaxError |-> e]

\* The public SyntaxError of a captured error, its Statement field filled
\* when configured.
ErrorStatement(s, context) ==
    IF s.includeErrorStatement /\ context # "" THEN Split(context)[1] ELSE ""

\* SplitString: the *SyntaxError returned when syntax errors were captured.
SplitSyntaxError(s, errors) ==
    LET maxErrors == IF s.maxErrors <= 0 \/ s.maxErrors > Len(errors)
                     THEN Len(errors) ELSE s.maxErrors
        errMsg(e) == "Line " \o Itoa(e.Line) \o ", Column " \o Itoa(e.Column) \o ": " \o e.Message
                       \o (IF s.includeContext /\ e.Context # "" THEN "\n" \o e.Context ELSE "")
        errorMessages ==
            [i \in 1..maxErrors |-> errMsg(errors[i])]
              \o (IF Len(errors) > maxErrors
                  THEN <<"... and " \o Itoa(Len(errors) - maxErrors) \o " more errors">>
                  ELSE <<>>)
    IN  SyntaxErrorPointer(
            [Message   |-> IF s.verboseErrors THEN Join(errorMessages) ELSE errors[1].Message,
             Line      |-> errors[1].Line,
             Column    |-> errors[1].Column,
             Context   |-> errors[1].Context,
             Statement |-> ErrorStatement(s, errors[1].Context)])

\* A conversion that copies the positions whatever includePosition is.
SplitStatement_KeepPosition(s, stmt) ==
    [Content     |-> stmt.Content,
     Type        |-> Parse(stmt.Type),
     StartLine   |-> stmt.StartLine,
     EndLine     |-> stmt.EndLine,
     StartColumn |-> stmt.StartColumn,
     EndColumn   |-> stmt.EndColumn]

\* SplitString: a parsed statement in the public model.
SplitStatement(s, stmt) ==
    [Content     |-> stmt.Content,
     Type        |-> Parse(stmt.Type),
     StartLine   |-> IF s.includePosition THEN stmt.StartLine ELSE 0,
     EndLine     |-> IF s.includePosition THEN stmt.EndLine ELSE 0,
     StartColumn |-> IF s.includePosition THEN stmt.StartColumn ELSE 0,
     EndColumn   |-> IF s.includePosition THEN stmt.EndColumn ELSE 0]

\* GetSyntaxErrors: a captured error in the public model.
PublicSyntaxError(s, e) ==
    [Message   |-> e.Message,
     Line      |-> e.Line,
     Column    |-> e.Column,
     Context   |-> e.Context,
     Statement |-> ErrorStatement(s, e.Context)]

\* strings.Index(s, sub) + 1: where sub first starts in s, 0 if nowhere.
RECURSIVE IndexFrom(_, _, _)
IndexFrom(s, sub, i) ==
    IF i + Len(sub) - 1 > Len(s) THEN 0
    ELSE IF SubSeq(s, i, i + Len(sub) - 1) = sub THEN i
    ELSE IndexFrom(s, sub, i + 1)

\* SyntaxError.Error
Error(e) ==
    LET head == "syntax error at line " \o Itoa(e.Line) \o ", column " \o Itoa(e.Column) \o ": "
        at == IndexFrom(e.Message, "expecting {", 1)
    IN  IF e.Context # "" THEN head \o e.Message \o "\n" \o e.Context
        ELSE IF at > 0 /\ Len(e.Message) > 200
             THEN head \o TrimSpace(SubSeq(e.Message, 1, at - 1)) \o " expecting {...}"
        ELSE head \o e.Message

InitSplit ==
    /\ NewStatementListener
    /\ lastCall = NoCall
    /\ pc = "split"
    /\ WalkIdle
    /\ DedupIdle
    /\ ClassifyIdle
    /\ ErrorsIdle
    /\ splitter \in { NewSplitter(options) : options \in SampleOptionLists }
    /\ api \in {"SplitString", "GetSyntaxErrors", "GetAllSyntaxErrors"}
    /\ splitInput \in BlankInputs \cup { Input(s) : s \in SplitScripts }
    /\ out = <<>>

\* An early return that reports the empty input as an error.
ReturnsEmpty_AsError ==
    /\ pc = "split"
    /\ TrimSpace(splitInput) = ""
    /\ out' = IF api = "SplitString"
              THEN [statements |-> NilSlice, err |-> Errorf("empty input")]
              ELSE [errors |-> NilSlice, err |-> Errorf("empty input")]
    /\ pc' = "returned"
    /\ UNCHANGED <<listenerVars, lastCall, walkVars, dedupVars, errVars, splitter, api, splitInput,
                   classifyVars>>

\* SplitString and GetSyntaxErrors on an input of white space only.
ReturnsEmpty ==
    /\ pc = "split"
    /\ TrimSpace(splitInput) = ""
    /\ out' = IF api = "SplitString"
              THEN [statements |-> Slice(<<>>), err |-> NilError]
              ELSE [errors |-> Slice(<<>>), err |-> NilError]
    /\ pc' = "returned"
    /\ UNCHANGED <<listenerVars, lastCall, walkVars, dedupVars, errVars, splitter, api, splitInput,
                   classifyVars>>

\* SplitString and GetSyntaxErrors call ParseStringWithOptions, which sets up
\* the parser and the two listeners.
CallsParseStringWithOptions ==
    /\ pc = "split"
    /\ TrimSpace(splitInput) # ""
    /\ \E s \in SplitScripts :
          /\ Input(s) = splitInput
          /\ script' = s
          /\ stack' = <<Frame("sql_script", 1, Len(Tokens(s)))>>
    /\ LET s == Callee(splitter, api)
           l == CustomErrorListener(s.maxErrors, splitInput, s.contextLines)
       IN  /\ Errors' = l.Errors
           /\ MaxErrors' = l.MaxErrors
           /\ SourceText' = l.SourceText
           /\ ContextLines' = l.ContextLines
           /\ madeWith' = <<s.maxErrors, splitInput, s.contextLines>>
    /\ reported' = <<>>
    /\ Statements' = <<>>
    /\ currentType' = ""
    /\ plsqlBlockDepth' = 0
    /\ cursor' = 1
    /\ pc' = "parse"
    /\ UNCHANGED <<lastCall, result, syntaxErrors, err, unitKinds, seenRules, dedupVars, splitVars,
                   classifyVars>>

\* A SplitString that returns the statements beside the syntax error.
SplitStringReturns_Both ==
    /\ pc = "done"
    /\ api = "SplitString"
    /\ out' = [statements |->
                  Slice([i \in 1..Len(result) |-> SplitStatement(splitter, result[i])]),
              err |-> IF Len(syntaxErrors) > 0
                      THEN SplitSyntaxError(splitter, syntaxErrors) ELSE NilError]
    /\ pc' = "returned"
    /\ UNCHANGED <<listenerVars, lastCall, walkVars, dedupVars, errVars, splitter, api, splitInput,
                   classifyVars>>

\* SplitString after ParseStringWithOptions returned.
SplitStringReturns ==
    /\ pc = "done"
    /\ api = "SplitString"
    /\ out' = IF err # "nil"
              THEN [statements |-> NilSlice, err |-> Errorf("parser error: " \o err)]
              ELSE IF Len(syntaxErrors) > 0
              THEN [statements |-> NilSlice, err |-> SplitSyntaxError(splitter, syntaxErrors)]
              ELSE [statements |->
                        Slice([i \in 1..Len(result) |-> SplitStatement(splitter, result[i])]),
                    err |-> NilError]
    /\ pc' = "returned"
    /\ UNCHANGED <<listenerVars, lastCall, walkVars, dedupVars, errVars, splitter, api, splitInput,
                   classifyVars>>

\* GetSyntaxErrors after ParseStringWithOptions returned, called directly or
\* by GetAllSyntaxErrors on its temporary splitter.
GetSyntaxErrorsReturns ==
    /\ pc = "done"
    /\ api \in {"GetSyntaxErrors", "GetAllSyntaxErrors"}
    /\ out' = IF err # "nil"
              THEN [errors |-> NilSlice, err |-> Errorf("parser error: " \o err)]
              ELSE [errors |-> Slice([i \in 1..Len(syntaxErrors) |->
                                         PublicSyntaxError(Callee(splitter, api), syntaxErrors[i])]),
                    err |-> NilError]
    /\ pc' = "returned"
    /\ UNCHANGED <<listenerVars, lastCall, walkVars, dedupVars, errVars, splitter, api, splitInput,
                   classifyVars>>

NextSplit ==
    \/ ReturnsEmpty
    \/ CallsParseStringWithOptions
    \/ ParserReports
    \/ ParserReturnsTree
    \/ WalkEnter
    \/ WalkExit
    \/ ReturnStatements
    \/ SplitStringReturns
    \/ GetSyntaxErrorsReturns

SpecSplit == InitSplit /\ [][NextSplit]_vars

(***************************************************************************)
(* deduplicateStatements as a function of its input: it is applied to a    *)
(* list of records, and then to its own result.                            *)
(***************************************************************************)
\* A record at (startLine, startColumn)-(endLine, endColumn).
SampleStatement(startLine, startColumn, endLine, endColumn, stmtType) ==
    [Content     |-> "s",
     StartLine   |-> startLine,
     EndLine     |-> endLine,
     StartColumn |-> startColumn,
     EndColumn   |-> endColumn,
     Type        |-> stmtType]

\* Four positions: two that share a start and differ in their end, one later
\* on the same line, one on the next line; each under three types.
SampleStatements ==
    { SampleStatement(p[1], p[2], p[3], p[4], t) :
        p \in { <<1, 0, 1, 5>>, <<1, 0, 1, 9>>, <<1, 6, 1, 9>>, <<2, 0, 2, 5>> },
        t \in { "UNKNOWN", "SELECT", "UPDATE" } }

ListsUpTo(n, S) == UNION { [1..k -> S] : k \in 0..n }

InitDedup ==
    /\ NewStatementListener
    /\ lastCall = NoCall
    /\ pc = "input"
    /\ WalkIdle
    /\ ClassifyIdle
    /\ dedupIn \in ListsUpTo(MaxInput, SampleStatements)
    /\ dedupOut = <<>>
    /\ dedupAgain = <<>>
    /\ ErrorsIdle
    /\ SplitIdle

Deduplicate ==
    /\ pc = "input"
    /\ dedupOut' \in deduplicateStatements(dedupIn)
    /\ pc' = "once"
    /\ UNCHANGED <<dedupIn, dedupAgain, notDedup>>

DeduplicateAgain ==
    /\ pc = "once"
    /\ dedupAgain' \in deduplicateStatements(dedupOut)
    /\ pc' = "twice"
    /\ UNCHANGED <<dedupIn, dedupOut, notDedup>>

NextDedup ==
    \/ Deduplicate
    \/ DeduplicateAgain

SpecDedup == InitDedup /\ [][NextDedup]_vars

(***************************************************************************)
(* SpecClassify: getDeterminedStatementType applied to one text.           *)
(***************************************************************************)
\* The secondary keywords of a CREATE statement and what follows them.
SampleObjects ==
    { "PACKAGE BODY", "PACKAGE", "PROCEDURE", "FUNCTION", "TRIGGER", "TABLE", "VIEW",
      "INDEX", "SEQUENCE", "TYPE BODY", "TYPE", "MATERIALIZED VIEW", "SYNONYM",
      "DATABASE LINK", "USER", "materialized view", "type body" }
SampleVerbs == { "CREATE ", "create or replace ", "ALTER ", "DROP ", "RECREATE " }
SampleLeads == { "", " \n\t" }
SampleTails == { " x", " x AS OBJECT ( n INT ) ;\n" }

SampleTexts ==
    { lead \o verb \o object \o tail :
        lead \in SampleLeads, verb \in SampleVerbs,
        object \in SampleObjects, tail \in SampleTails }
    \cup { "", " ", "\n", "/", " /\n", "//", "/ x", "x", ";", "SOME_UNKNOWN_STATEMENT",
           "SELECT * FROM employees", "select 1", "WITH t AS ( SELECT 1 ) SELECT * FROM t",
           "COMMIT", "rollback", "SAVEPOINT sp1", "BEGIN NULL; END;", "DECLARE n INT;",
           "EXPLAIN PLAN FOR SELECT 1", "EXPLAIN", "COMMENT ON TABLE t IS 'x'",
           "SET TRANSACTION READ ONLY", "LOCK TABLE t", "EXEC p", "SHOW ERRORS",
           "DESC t", "TRUNCATE TABLE t", "GRANT x", "REVOKE x", "MERGE INTO t",
           "INSERT INTO t", "UPDATE t", "DELETE FROM t", "CALL p" }

InitClassify ==
    /\ NewStatementListener
    /\ lastCall = NoCall
    /\ pc = "classify"
    /\ WalkIdle
    /\ DedupIdle
    /\ ErrorsIdle
    /\ SplitIdle
    /\ stmtText \in SampleTexts
    /\ determinedType = ""
    /\ parsedType = ""

Classify ==
    /\ pc = "classify"
    /\ determinedType' = getDeterminedStatementType(stmtText)
    /\ pc' = "classified"
    /\ UNCHANGED <<stmtText, parsedType, notClassify>>

NextClassify == Classify

SpecClassify == InitClassify /\ [][NextClassify]_vars

(***************************************************************************)
(* SpecType: the type tag a handler puts on a record, converted by         *)
(* SplitString with statement.Parse; and statement.Parse on a given string.*)
(***************************************************************************)
InitType ==
    /\ NewStatementListener
    /\ lastCall = NoCall
    /\ pc = "text"
    /\ WalkIdle
    /\ DedupIdle
    /\ ErrorsIdle
    /\ SplitIdle
    /\ stmtText \in SampleTexts \cup { String(t) : t \in Types }
    /\ determinedType = ""
    /\ parsedType = ""

\* EnterUnit_statement, EnterSql_statement: the tag of the record.
TagFromClassifier ==
    /\ pc = "text"
    /\ determinedType' = getDeterminedStatementType(stmtText)
    /\ pc' = "tag"
    /\ UNCHANGED <<stmtText, parsedType, notClassify>>

\* EnterAnonymous_block: the tag of the record.
TagFromAnonymous_block ==
    /\ pc = "text"
    /\ determinedType' = "PLSQL_BLOCK"
    /\ pc' = "tag"
    /\ UNCHANGED <<stmtText, parsedType, notClassify>>

\* EnterTransaction_control_statements: the tag of the record.
TagFromTransaction_control_statements ==
    /\ pc = "text"
    /\ determinedType' = TransactionType(stmtText)
    /\ pc' = "tag"
    /\ UNCHANGED <<stmtText, parsedType, notClassify>>

\* SplitString: the record's tag converted for the public statement.
ConvertTag ==
    /\ pc = "tag"
    /\ parsedType' = Parse(determinedType)
    /\ pc' = "converted"
    /\ UNCHANGED <<stmtText, determinedType, notClassify>>

\* statement.Parse called on the text.
ParseText ==
    /\ pc = "text"
    /\ parsedType' = Parse(stmtText)
    /\ pc' = "parsed"
    /\ UNCHANGED <<stmtText, determinedType, notClassify>>

NextType ==
    \/ TagFromClassifier
    \/ TagFromAnonymous_block
    \/ TagFromTransaction_control_statements
    \/ ConvertTag
    \/ ParseText

SpecType == InitType /\ [][NextType]_vars

(***************************************************************************)
(* SpecContext: one syntax error reported to a CustomErrorListener made    *)
(* with a source text, for which SyntaxError calls extractErrorContext.    *)
(***************************************************************************)
\* The i-th line of the sources.
SourceLine(i) ==
    IF i = 1 THEN "SELECT * FROM ;"
    ELSE IF i % 3 = 2 THEN "BEGIN"
    ELSE IF i % 3 = 0 THEN ""
    ELSE "  END " \o Itoa(i) \o " ;"

\* The source of n lines; no source text for n = 0.
RECURSIVE Source(_)
Source(n) ==
    IF n = 0 THEN ""
    ELSE IF n = 1 THEN SourceLine(1)
    ELSE Source(n - 1) \o "\n" \o SourceLine(n)

SampleColumns == {0, 1, 3, 15, 40}

InitContext ==
    /\ NewStatementListener
    /\ lastCall = NoCall
    /\ pc = "context"
    /\ WalkIdle
    /\ DedupIdle
    /\ ClassifyIdle
    /\ SplitIdle
    /\ \E n \in 0..MaxLines, contextLines \in -1..MaxRadius :
          /\ NewCustomErrorListener(DefaultMaxErrors, Source(n), contextLines)
          /\ madeWith = <<DefaultMaxErrors, Source(n), contextLines>>
    /\ reported = <<>>

\* The parser reports one syntax error, at a line of the source or next to it.
ReportAt ==
    /\ pc = "context"
    /\ \E line \in 0..(Len(Split(SourceText)) + 1), column \in SampleColumns :
          LET r == Report(NilToken, line, column, "mismatched input")
          IN  /\ SyntaxError(r.offendingSymbol, r.line, r.column, r.msg)
              /\ reported' = Append(reported, r)
    /\ pc' = "reported"
    /\ UNCHANGED <<MaxErrors, SourceText, ContextLines, madeWith, notErrors>>

NextContext == ReportAt

SpecContext == InitContext /\ [][NextContext]_vars

(***************************************************************************)
(* Claims about the listener, its callbacks made in any order (Spec).      *)
(***************************************************************************)
Last(list) == list[Len(list)]
Appended == Len(Statements) - lastCall.lenBefore
TokensPresent(ctx) == ~ctx.start.isNil /\ ~ctx.stop.isNil

\* C1 (as claimed): entering unit_statement, sql_statement or
\* transaction_control_statements at a depth above 0 appends no record, and
\* such a rule appends a record only when the depth is 0 as it is entered.
C1_DepthGating ==
    (lastCall.phase = "enter" /\ lastCall.rule \in EmittingRules) =>
        /\ lastCall.depthBefore > 0 => Appended = 0
        /\ Appended > 0 => lastCall.depthBefore = 0

\* C2 (as claimed): the depth counter is never negative, whatever the order of
\* the enter and exit callbacks.
C2_DepthNeverNegative == plsqlBlockDepth >= 0

\* C3 (as claimed): entering an anonymous_block appends exactly one record, of
\* type PLSQL_BLOCK and spanning the rule's first to last token, if and only if
\* the depth was 0 before (and both tokens are present); otherwise nothing.
C3_AnonymousBlockRecord ==
    (lastCall.phase = "enter" /\ lastCall.rule = "anonymous_block") =>
        IF lastCall.depthBefore = 0 /\ TokensPresent(lastCall.ctx)
        THEN /\ Appended = 1
             /\ Last(Statements).Type = "PLSQL_BLOCK"
             /\ Last(Statements).StartLine = lastCall.ctx.start.line
             /\ Last(Statements).StartColumn = lastCall.ctx.start.column
             /\ Last(Statements).EndLine = lastCall.ctx.stop.line
        ELSE Appended = 0

(***************************************************************************)
(* Claims about the walk of a parse tree (SpecWalk).                       *)
(***************************************************************************)
\* The first and last token of the single top-level statement of a script
\* whose tree has one.
WholeUnit(toks) ==
    LET last == IF Keyword(toks, Len(toks)) = ";" THEN Len(toks) - 1 ELSE Len(toks)
    IN  RuleCtx(toks, 1, last)

\* C3, its consequence in a walk: a unit_statement wrapping one anonymous block
\* gives exactly one record, of type PLSQL_BLOCK.
C3_OneBlockRecordInWalk ==
    (pc = "done" /\ unitKinds = <<"anonymous_block">>) =>
        Len(result) = 1 /\ result[1].Type = "PLSQL_BLOCK"

\* C4 (as claimed): one top-level unit_statement wrapping a create_procedure_body
\* with nested rules gives exactly one record, of type CREATE_PROCEDURE.
C4_OneProcedureRecord ==
    (pc = "done" /\ unitKinds = <<"create_procedure_body">>
        /\ NestedRules \subseteq seenRules) =>
        /\ Len(result) = 1
        /\ result[1].Type = "CREATE_PROCEDURE"
        /\ result[1] = statementModel(WholeUnit(Tokens(script)), result[1].Type)

\* C4, what holds of the code: exactly one record, typed by its text.
C4_OneRecordTypedByText ==
    (pc = "done" /\ unitKinds = <<"create_procedure_body">>
        /\ NestedRules \subseteq seenRules) =>
        /\ Len(result) = 1
        /\ result[1] = statementModel(WholeUnit(Tokens(script)),
                                      getDeterminedStatementType(result[1].Content))
        /\ result[1].Type \in {"CREATE_PROCEDURE", "CREATE_PACKAGE"}

\* C5 (as claimed): when the outermost block-opening rule is a create rule, the
\* record of that construct carries the type tag of the rule that fired.
C5_TypeFromRuleIdentity ==
    (pc = "walk" /\ lastCall.phase = "enter" /\ lastCall.rule \in CreateRules
        /\ lastCall.depthBefore = 0) =>
        /\ Statements # <<>>
        /\ Last(Statements).StartLine = lastCall.ctx.start.line
        /\ Last(Statements).StartColumn = lastCall.ctx.start.column
        /\ Last(Statements).Type = currentType

\* (line, column) a is at or before (line, column) b.
AtOrBefore(aLine, aColumn, bLine, bColumn) ==
    aLine < bLine \/ (aLine = bLine /\ aColumn <= bColumn)

\* C6: the statements returned are in non-decreasing (startLine, startColumn)
\* order and each ends at or before the start of the next.
C6_SortedAndDisjoint ==
    pc = "done" =>
        \A i \in 1..(Len(result) - 1) :
            /\ AtOrBefore(result[i].StartLine, result[i].StartColumn,
                          result[i + 1].StartLine, result[i + 1].StartColumn)
            /\ AtOrBefore(result[i].EndLine, result[i].EndColumn,
                          result[i + 1].StartLine, result[i + 1].StartColumn)

\* C6 witness: a walk that returned two statements from two top-level rules,
\* one of them a block whose inner statements were entered.
C6_Witness ==
    /\ pc = "done"
    /\ Len(result) >= 2
    /\ Len(unitKinds) >= 2
    /\ "sql_statement" \in seenRules

(***************************************************************************)
(* Claims about deduplicateStatements (SpecDedup).                         *)
(***************************************************************************)
SameKey(a, b) ==
    /\ a.StartLine = b.StartLine /\ a.StartColumn = b.StartColumn
    /\ a.EndLine = b.EndLine /\ a.EndColumn = b.EndColumn

\* C7: the output holds exactly one record for each position key of the input
\* and no record that was not in the input; when the records of a key include
\* one of a type other than UNKNOWN, the record kept has such a type.
C7_OnePerKey ==
    pc \in {"once", "twice"} =>
        /\ \A i \in 1..Len(dedupIn) :
              Cardinality({ j \in 1..Len(dedupOut) : SameKey(dedupOut[j], dedupIn[i]) }) = 1
        /\ \A j \in 1..Len(dedupOut) :
              /\ \E i \in 1..Len(dedupIn) : dedupOut[j] = dedupIn[i]
              /\ (\E i \in 1..Len(dedupIn) :
                     SameKey(dedupIn[i], dedupOut[j]) /\ dedupIn[i].Type # "UNKNOWN")
                 => dedupOut[j].Type # "UNKNOWN"

\* C7 witness: an UNKNOWN record came first, a typed record of the same key
\* later, and the output is shorter than the input.
C7_Witness ==
    /\ pc = "once"
    /\ Len(dedupOut) < Len(dedupIn)
    /\ dedupIn[1].Type = "UNKNOWN"
    /\ \E i \in 2..Len(dedupIn) :
          SameKey(dedupIn[i], dedupIn[1]) /\ dedupIn[i].Type # "UNKNOWN"

\* C8: the output is in ascending (StartLine, StartColumn) order, and an empty
\* input gives an empty output.
C8_SortedOutput ==
    pc \in {"once", "twice"} =>
        /\ \A i \in 1..(Len(dedupOut) - 1) :
              AtOrBefore(dedupOut[i].StartLine, dedupOut[i].StartColumn,
                         dedupOut[i + 1].StartLine, dedupOut[i + 1].StartColumn)
        /\ dedupIn = <<>> => dedupOut = <<>>

\* C8 witness: the input held a record on line 1 after a later record of the
\* same line, and both are in the output.
C8_Witness ==
    /\ pc = "once"
    /\ Len(dedupOut) >= 2
    /\ \E i, j \in 1..Len(dedupIn) :
          /\ i < j
          /\ dedupIn[i].StartLine = dedupIn[j].StartLine
          /\ dedupIn[i].StartColumn > dedupIn[j].StartColumn

\* C9 (as claimed): deduplicating the output of a deduplication returns it
\* unchanged, the same records in the same order.
C9_Idempotent == pc = "twice" => dedupAgain = dedupOut

\* C9, what holds of the code: the second result has the records of the first,
\* in an order that may differ where two records start at the same place.
C9_SameRecordsAgain ==
    pc = "twice" =>
        /\ Len(dedupAgain) = Len(dedupOut)
        /\ { dedupAgain[i] : i \in 1..Len(dedupAgain) } = { dedupOut[i] : i \in 1..Len(dedupOut) }

(***************************************************************************)
(* Claims about the CustomErrorListener (SpecErrors).                      *)
(***************************************************************************)
Min(a, b) == IF a < b THEN a ELSE b

\* C10: after k reports the Errors list holds exactly the first
\* min(k, MaxErrors) of them, in the order they were reported; so a report made
\* at the limit changes nothing and no captured record is altered or reordered.
C10_FirstErrorsKept ==
    pc = "errors" =>
        /\ Len(Errors) = Min(Len(reported), MaxErrors)
        /\ \A i \in 1..Len(Errors) :
              /\ Errors[i].Line = reported[i].line
              /\ Errors[i].Column = reported[i].column
              /\ Errors[i].TokenText = reported[i].offendingSymbol.text
              /\ HasPrefix(Errors[i].Message, reported[i].msg)

\* C10 witness: the limit of 3 is reached and two more reports were made, the
\* fourth unlike the third.
C10_Witness ==
    /\ pc = "errors"
    /\ MaxErrors = 3
    /\ Len(Errors) = 3
    /\ Len(reported) >= 5
    /\ reported[4] # reported[3]

\* C11 (as claimed): a listener made with maxErrors = 0 captures every syntax
\* error reported, however many there are.
C11_ZeroIsUnlimited ==
    (pc = "errors" /\ madeWith[1] = 0) => Len(Errors) = Len(reported)

\* C11, what holds of the code: made with maxErrors <= 0, the listener keeps
\* the first DefaultMaxErrors reports and no more.
C11_ZeroIsDefaultLimit ==
    (pc = "errors" /\ madeWith[1] <= 0) =>
        /\ MaxErrors = DefaultMaxErrors
        /\ Len(Errors) = Min(Len(reported), DefaultMaxErrors)

(***************************************************************************)
(* Claims about ParseStringWithOptions with syntax errors (SpecWalk).      *)
(***************************************************************************)
\* C12: when the walk extracted statements and the listener captured syntax
\* errors, ParseStringWithOptions returns both, the statements of every
\* extracted position and the captured errors, with a nil error value.
C12_ReturnsBoth ==
    (pc = "done" /\ Statements # <<>> /\ Errors # <<>>) =>
        /\ err = "nil"
        /\ syntaxErrors = Errors
        /\ \A i \in 1..Len(Statements) :
              \E j \in 1..Len(result) : SameKey(result[j], Statements[i])
        /\ \A j \in 1..Len(result) :
              \E i \in 1..Len(Statements) : result[j] = Statement(Statements[i])

\* C12 witness: the query without its table name gave one SELECT statement and
\* one syntax error.
C12_Witness ==
    /\ pc = "done"
    /\ script = 7
    /\ Len(result) = 1
    /\ result[1].Type = "SELECT"
    /\ Len(syntaxErrors) = 1
    /\ syntaxErrors[1].Line = 1

(***************************************************************************)
(* Claims about the Splitter (SpecSplit).                                  *)
(***************************************************************************)
\* C13: SplitString never returns statements together with an error. When the
\* parse captured a syntax error it returns a nil list and a *SyntaxError with
\* the Line and Column of the first captured error, verbose or not; it returns
\* statements only when no syntax error was captured.
C13_ErrorOrStatements ==
    (pc = "returned" /\ api = "SplitString") =>
        /\ out.err.isNil \/ out.statements.isNil
        /\ IF Errors # <<>>
           THEN /\ out.statements = NilSlice
                /\ ~out.err.isNil
                /\ out.err.syntaxError.Line = reported[1].line
                /\ out.err.syntaxError.Column = reported[1].column
           ELSE /\ out.err.isNil
                /\ ~out.statements.isNil

\* C13 witness: a verbose splitter was given the script with two syntax errors,
\* the walk extracted statements, and SplitString returned the error.
C13_Witness ==
    /\ pc = "returned"
    /\ api = "SplitString"
    /\ splitter.verboseErrors
    /\ Len(Errors) = 2
    /\ result # <<>>
    /\ ~out.err.isNil

\* C14: for an input that is empty or white space only, SplitString returns
\* an empty statement list and no error, and GetSyntaxErrors an empty error
\* list and no error, whatever the splitter's configuration.
C14_BlankInput ==
    (pc = "returned" /\ TrimSpace(splitInput) = "") =>
        /\ out.err = NilError
        /\ api = "SplitString" => out.statements.items = <<>>
        /\ api = "GetSyntaxErrors" => out.errors.items = <<>>
        /\ Errors = <<>> /\ Statements = <<>>

\* C14 witness: GetSyntaxErrors returned for an input of spaces, a newline and
\* a tab, on a splitter that is not the default one.
C14_Witness ==
    /\ pc = "returned"
    /\ api = "GetSyntaxErrors"
    /\ Len(splitInput) > 2
    /\ TrimSpace(splitInput) = ""
    /\ splitter.verboseErrors

(***************************************************************************)
(* Claims about the records the listener appends (Spec).                   *)
(***************************************************************************)
RecordingRules == EmittingRules \cup {"anonymous_block"}

\* C15: a unit_statement, sql_statement, transaction_control_statements or
\* anonymous_block entered with its start token or its stop token absent
\* appends no record, captures no error, and leaves the records in the list
\* as they were.
C15_AbsentTokenNoRecord ==
    [][(/\ lastCall'.phase = "enter"
        /\ lastCall'.rule \in RecordingRules
        /\ ~TokensPresent(lastCall'.ctx))
          => (Statements' = Statements /\ Errors' = Errors)]_vars

\* C15 witness: an anonymous block was entered at depth 0 with its stop token
\* absent, the list holding a record already.
C15_Witness ==
    /\ lastCall.phase = "enter"
    /\ lastCall.rule = "anonymous_block"
    /\ lastCall.depthBefore = 0
    /\ ~lastCall.ctx.start.isNil
    /\ lastCall.ctx.stop.isNil
    /\ Len(Statements) = 1

\* C16: every record a callback appends starts at the first token's line and
\* column and ends at the last token's line and at the last token's column
\* plus the length of its text; so its start is at or before its end whenever
\* the first token does not come after the last one.
C16_PositionsFromTokens ==
    (lastCall.phase = "enter" /\ Appended > 0) =>
        LET r == Last(Statements)
            start == lastCall.ctx.start
            stop == lastCall.ctx.stop
        IN /\ Appended = 1
           /\ r.StartLine = start.line
           /\ r.StartColumn = start.column
           /\ r.EndLine = stop.line
           /\ r.EndColumn = stop.column + Len(stop.text)
           /\ AtOrBefore(start.line, start.column, stop.line, stop.column)
                => AtOrBefore(r.StartLine, r.StartColumn, r.EndLine, r.EndColumn)

\* A record appended for a context whose last token has a text of nine bytes.
C16_Witness ==
    /\ lastCall.phase = "enter"
    /\ Appended = 1
    /\ Len(lastCall.ctx.stop.text) = 9
    /\ Last(Statements).StartLine = 1
    /\ Last(Statements).EndColumn = 23

\* C19: the record the transaction-control rule appends at depth 0 has type
\* COMMIT, ROLLBACK or SAVEPOINT when its content, trimmed and upper-cased,
\* starts with that keyword, and TRANSACTION otherwise.
C19_TransactionType ==
    (/\ lastCall.phase = "enter"
     /\ lastCall.rule = "transaction_control_statements"
     /\ lastCall.depthBefore = 0
     /\ Appended > 0) =>
        LET r == Last(Statements)
            folded == ToUpper(TrimSpace(r.Content))
        IN  /\ r.Content = lastCall.ctx.content
            /\ HasPrefix(folded, "COMMIT") => r.Type = "COMMIT"
            /\ (~HasPrefix(folded, "COMMIT") /\ HasPrefix(folded, "ROLLBACK"))
                  => r.Type = "ROLLBACK"
            /\ (~HasPrefix(folded, "COMMIT") /\ ~HasPrefix(folded, "ROLLBACK")
                    /\ HasPrefix(folded, "SAVEPOINT"))
                  => r.Type = "SAVEPOINT"
            /\ (~HasPrefix(folded, "COMMIT") /\ ~HasPrefix(folded, "ROLLBACK")
                    /\ ~HasPrefix(folded, "SAVEPOINT"))
                  => r.Type = "TRANSACTION"

\* The rule has appended a ROLLBACK record for a content in mixed case.
C19_Witness ==
    /\ lastCall.phase = "enter"
    /\ lastCall.rule = "transaction_control_statements"
    /\ lastCall.depthBefore = 0
    /\ Appended = 1
    /\ Last(Statements).Content = "Rollback TO sp1"
    /\ Last(Statements).Type = "ROLLBACK"

(***************************************************************************)
(* Claims about getDeterminedStatementType (SpecClassify).                 *)
(***************************************************************************)
\* The two-word secondary phrases of CREATE and the tags named after them.
TwoWordPhrases ==
    { <<"PACKAGE BODY", "CREATE_PACKAGE_BODY">>,
      <<"TYPE BODY", "CREATE_TYPE_BODY">>,
      <<"MATERIALIZED VIEW", "CREATE_MATERIALIZED_VIEW">>,
      <<"DATABASE LINK", "CREATE_DATABASE_LINK">> }
SecondaryKeywords ==
    { "PACKAGE BODY", "PACKAGE", "PROCEDURE", "FUNCTION", "TRIGGER", "TABLE", "VIEW",
      "INDEX", "SEQUENCE", "TYPE BODY", "TYPE", "MATERIALIZED VIEW", "SYNONYM",
      "DATABASE LINK" }
Normalized(text) == ToUpper(TrimSpace(text))

\* The text has the phrase and, apart from the words of the phrase itself, no
\* other secondary keyword.
OnlyPhrase(text, phrase) ==
    /\ HasPrefix(Normalized(text), "CREATE")
    /\ Contains(Normalized(text), phrase)
    /\ \A k \in SecondaryKeywords :
          Contains(Normalized(text), k) => Contains(phrase, k)

\* C17 (as claimed): a CREATE text holding a two-word secondary phrase and no
\* keyword of higher priority gets the tag of the two-word phrase, not the tag
\* of the single word the phrase contains.
C17_TwoWordPhraseFirst ==
    pc = "classified" =>
        \A p \in TwoWordPhrases : OnlyPhrase(stmtText, p[1]) => determinedType = p[2]

\* What the code does: PACKAGE BODY, TYPE BODY and DATABASE LINK get their own
\* tag, MATERIALIZED VIEW gets the tag of VIEW.
C17_MaterializedViewIsView ==
    pc = "classified" =>
        \A p \in TwoWordPhrases :
            OnlyPhrase(stmtText, p[1]) =>
                determinedType = IF p[1] = "MATERIALIZED VIEW" THEN "CREATE_VIEW" ELSE p[2]

\* The prefixes getDeterminedStatementType tests.
ClassifierPrefixes ==
    { "SELECT", "INSERT", "UPDATE", "DELETE", "MERGE", "CREATE", "ALTER", "DROP",
      "TRUNCATE", "GRANT", "REVOKE", "COMMIT", "ROLLBACK", "SAVEPOINT", "BEGIN",
      "DECLARE", "EXPLAIN PLAN", "COMMENT ON", "SET TRANSACTION", "LOCK TABLE",
      "EXECUTE", "EXEC", "SHOW", "DESC", "DESCRIBE" }
MatchesNoPrefix(text) ==
    \A prefix \in ClassifierPrefixes : ~HasPrefix(Normalized(text), prefix)

\* C18: getDeterminedStatementType returns a tag of the enumeration for every
\* text; it returns UNKNOWN for the empty text and for a text that matches no
\* prefix and is not a lone "/", and SLASH for a text that is "/" once trimmed.
C18_Total ==
    pc = "classified" =>
        /\ determinedType \in Types
        /\ stmtText = "" => determinedType = "UNKNOWN"
        /\ Normalized(stmtText) = "/" => determinedType = "SLASH"
        /\ (MatchesNoPrefix(stmtText) /\ Normalized(stmtText) # "/")
              => determinedType = "UNKNOWN"

\* A "/" between white space has been classified.
C18_Witness ==
    /\ pc = "classified"
    /\ stmtText = " /\n"
    /\ determinedType = "SLASH"

(***************************************************************************)
(* Claims about extractErrorContext (SpecContext).                         *)
(***************************************************************************)
Max(a, b) == IF a > b THEN a ELSE b

\* The position of the first "|" of s, 0 if it has none.
RECURSIVE BarFrom(_, _)
BarFrom(s, i) ==
    IF i > Len(s) THEN 0 ELSE IF CharAt(s, i) = "|" THEN i ELSE BarFrom(s, i + 1)

\* The number written in decimal digits in s.
RECURSIVE Atoi(_)
Atoi(s) ==
    IF Len(s) = 0 THEN 0
    ELSE 10 * Atoi(SubSeq(s, 1, Len(s) - 1))
           + (CHOOSE d \in 0..9 : Digits[d + 1] = CharAt(s, Len(s)))

\* The source lines a context shows: for each of its lines with a "nn | text"
\* form, in order, the number and the text.
RenderedLines(context) ==
    LET rows == SelectSeq(Split(context), LAMBDA row : BarFrom(row, 1) > 0)
    IN  [k \in 1..Len(rows) |->
            LET bar == BarFrom(rows[k], 1)
            IN  [number |-> Atoi(TrimSpace(SubSeq(rows[k], 1, bar - 1))),
                 text   |-> SubSeq(rows[k], bar + 2, Len(rows[k]))]]

\* C20: for an error at line L of a source text of N lines, 1 <= L <= N, and a
\* listener with R >= 0 context lines, the context shows the source lines
\* max(1, L - R) to min(N, L + R), in ascending order and each once; with
\* R = 0 it shows line L only.
C20_ContextWindow ==
    (pc = "reported" /\ Len(Errors) = 1) =>
        LET lines == Split(SourceText)
            N == Len(lines)
            L == Errors[1].Line
            R == ContextLines
            from == Max(1, L - R)
            to == Min(N, L + R)
            shown == RenderedLines(Errors[1].Context)
        IN  (SourceText # "" /\ 1 <= L /\ L <= N /\ R >= 0) =>
                /\ Len(shown) = to - from + 1
                /\ \A k \in 1..Len(shown) :
                      /\ shown[k].number = from + k - 1
                      /\ shown[k].text = lines[from + k - 1]
                /\ R = 0 => (Len(shown) = 1 /\ shown[1].number = L)

\* An error at line 10 of eleven with two context lines: lines 8 to 11 are shown.
C20_Witness ==
    /\ pc = "reported"
    /\ Len(Errors) = 1
    /\ Errors[1].Line = 10
    /\ ContextLines = 2
    /\ Len(Split(SourceText)) = 11
    /\ Len(RenderedLines(Errors[1].Context)) = 4

\* The rows of a context: its lines without the empty piece after the last
\* line break.
Rows(context) == SelectSeq(Split(context), LAMBDA row : row # "")
\* The marker rows: those that are not a numbered source line.
MarkerRows(context) == SelectSeq(Rows(context), LAMBDA row : BarFrom(row, 1) = 0)

\* The error whose context the claims are about is in the source.
ErrorInSource ==
    /\ pc = "reported"
    /\ Len(Errors) = 1
    /\ SourceText # ""
    /\ Errors[1].Line >= 1
    /\ Errors[1].Line <= Len(Split(SourceText))

PrefixWidth(row) == BarFrom(row, 1) + 1
IsNumbered(row) == BarFrom(row, 1) > 0
NumberOf(row) == Atoi(TrimSpace(SubSeq(row, 1, BarFrom(row, 1) - 1)))

\* C22: the context has exactly one marker row, right after the row of the
\* error line; for a column from 1 to the length of the error line it is
\* (prefix width + column - 1) spaces and a caret, for any other column it is
\* (prefix width) spaces and a caret.
C22_MarkerRow ==
    ErrorInSource =>
        LET rows == Rows(Errors[1].Context)
            L == Errors[1].Line
            column == Errors[1].Column
            lineContent == Split(SourceText)[L]
        IN  /\ Len(MarkerRows(Errors[1].Context)) = 1
            /\ \E k \in 1..(Len(rows) - 1) :
                  /\ IsNumbered(rows[k])
                  /\ NumberOf(rows[k]) = L
                  /\ ~IsNumbered(rows[k + 1])
                  /\ rows[k + 1] =
                        IF column >= 1 /\ column <= Len(lineContent)
                        THEN Spaces(PrefixWidth(rows[k]) + column - 1) \o "^"
                        ELSE Spaces(PrefixWidth(rows[k])) \o "^"

\* An error at column 3 of line 10: the marker row has 5 + 3 - 1 spaces.
C22_Witness ==
    /\ ErrorInSource
    /\ Errors[1].Line = 10
    /\ Errors[1].Column = 3
    /\ Len(MarkerRows(Errors[1].Context)) = 1
    /\ MarkerRows(Errors[1].Context)[1] = Spaces(7) \o "^"

\* The number of spaces before the caret of a marker row: the 0-based
\* position of the caret.
RECURSIVE CaretFrom(_, _)
CaretFrom(row, i) ==
    IF i > Len(row) THEN -1 ELSE IF CharAt(row, i) = "^" THEN i - 1 ELSE CaretFrom(row, i + 1)

\* C23 (as claimed): for every 0-based column inside the error line, the
\* caret is directly under the character of the error line at that column,
\* which the row of the error line shows (prefix width + column) places in.
C23_CaretUnderColumn ==
    ErrorInSource =>
        LET L == Errors[1].Line
            column == Errors[1].Column
            lineContent == Split(SourceText)[L]
            marker == MarkerRows(Errors[1].Context)[1]
            padding == Len(Itoa(RenderedLines(Errors[1].Context)
                                  [Len(RenderedLines(Errors[1].Context))].number))
        IN  (column >= 0 /\ column < Len(lineContent)) =>
                CaretFrom(marker, 1) = (padding + 3) + column

\* What the code does: for a column from 1 to the length of the line the
\* caret is under the character one place to the left of the column, and it
\* is under the first character for column 0.
C23_CaretOneLeft ==
    ErrorInSource =>
        LET L == Errors[1].Line
            column == Errors[1].Column
            lineContent == Split(SourceText)[L]
            marker == MarkerRows(Errors[1].Context)[1]
            padding == Len(Itoa(RenderedLines(Errors[1].Context)
                                  [Len(RenderedLines(Errors[1].Context))].number))
        IN  /\ (column >= 1 /\ column <= Len(lineContent)) =>
                  CaretFrom(marker, 1) = (padding + 3) + column - 1
            /\ column = 0 => CaretFrom(marker, 1) = padding + 3

\* C24: the error reported is captured with its line, column and message;
\* its context is empty when the listener has no source text or the line is
\* below 1 or above the number of source lines, and not empty otherwise.
C24_EmptyContext ==
    pc = "reported" =>
        /\ Len(Errors) = 1
        /\ Errors[1].Line = reported[1].line
        /\ Errors[1].Column = reported[1].column
        /\ Errors[1].Message = reported[1].msg
        /\ Errors[1].Context = "" <=>
              \/ SourceText = ""
              \/ reported[1].line < 1
              \/ reported[1].line > Len(Split(SourceText))

\* An error reported one line past the end of a source of four lines.
C24_Witness ==
    /\ pc = "reported"
    /\ Len(Split(SourceText)) = 4
    /\ reported[1].line = 5
    /\ Len(Errors) = 1
    /\ Errors[1].Line = 5
    /\ Errors[1].Context = ""

(***************************************************************************)
(* Claims about the Splitter (SpecSplit).                                  *)
(***************************************************************************)
SplitStringFailed ==
    /\ pc = "returned"
    /\ api = "SplitString"
    /\ ~out.err.isNil

\* C25 (as claimed): the syntax error SplitString returns carries the
\* rendered context only when the splitter was made with
\* WithErrorContext(true); without it, as by default, its Context is empty
\* and Error() shows no context lines.
C25_ContextOnlyWhenAsked ==
    (SplitStringFailed /\ ~splitter.includeContext) =>
        LET e == out.err.syntaxError
        IN  /\ e.Context = ""
            /\ ~Contains(Error(e), "^")

\* What the code does: the returned error carries the captured context
\* whatever includeContext is, and Error() shows it.
C25_ContextAlways ==
    SplitStringFailed =>
        LET e == out.err.syntaxError
        IN  /\ e.Context = syntaxErrors[1].Context
            /\ e.Context # ""
            /\ Contains(Error(e), e.Context)

C27_PositionInfo ==
    (pc = "returned" /\ api = "SplitString" /\ TrimSpace(splitInput) # "" /\ out.err.isNil) =>
        LET statements == out.statements.items
        IN  /\ Len(statements) = Len(result)
            /\ \A i \in 1..Len(result) :
                  /\ statements[i].Content = result[i].Content
                  /\ statements[i].Type = Parse(result[i].Type)
                  /\ IF splitter.includePosition
                     THEN /\ statements[i].StartLine = result[i].StartLine
                          /\ statements[i].EndLine = result[i].EndLine
                          /\ statements[i].StartColumn = result[i].StartColumn
                          /\ statements[i].EndColumn = result[i].EndColumn
                     ELSE /\ statements[i].StartLine = 0
                          /\ statements[i].EndLine = 0
                          /\ statements[i].StartColumn = 0
                          /\ statements[i].EndColumn = 0

\* A splitter without position info returned two statements that the parser
\* had placed on line 1.
C27_Witness ==
    /\ pc = "returned"
    /\ api = "SplitString"
    /\ ~splitter.includePosition
    /\ out.err.isNil
    /\ Len(out.statements.items) = 2
    /\ result[1].StartLine = 1
    /\ result[2].EndColumn > 0
    /\ out.statements.items[2].EndColumn = 0

(***************************************************************************)
(* Claims about the depth counter in a walk (SpecWalk).                    *)
(***************************************************************************)
BlockOpeningRules ==
    { "create_procedure_body", "create_function_body", "create_package",
      "create_package_body", "create_trigger", "create_type",
      "anonymous_block", "block", "declare_block" }
OpenBlockOpeningRules ==
    Cardinality({ i \in 1..Len(stack) : stack[i].rule \in BlockOpeningRules })

\* C28: in a walk, after every callback the depth counter is the number of
\* block-opening rules entered and not yet exited; it is 0 when the walk has
\* ended; entering unit_statement, sql_statement or
\* transaction_control_statements leaves it as it was.
C28_DepthIsOpenRules ==
    /\ plsqlBlockDepth = OpenBlockOpeningRules
    /\ pc = "done" => plsqlBlockDepth = 0
    /\ (lastCall.phase = "enter" /\ lastCall.rule \in EmittingRules /\ pc = "walk")
          => plsqlBlockDepth = lastCall.depthBefore

\* A transaction statement entered below three open block-opening rules.
C28_Witness ==
    /\ pc = "walk"
    /\ lastCall.phase = "enter"
    /\ lastCall.rule = "transaction_control_statements"
    /\ OpenBlockOpeningRules = 3
    /\ plsqlBlockDepth = 3

(***************************************************************************)
(* Claims about repeated deduplication of one list (SpecDedup).           *)
(***************************************************************************)
SharedStart(statements) ==
    \E i, j \in 1..Len(statements) :
        /\ statements[i].StartLine = statements[j].StartLine
        /\ statements[i].StartColumn = statements[j].StartColumn
        /\ <<statements[i].EndLine, statements[i].EndColumn>>
             # <<statements[j].EndLine, statements[j].EndColumn>>

\* C29: deduplicateStatements is deterministic: every run on the list that
\* was given returns the list the first run returned, in the same order,
\* also when two records of the list share their start and differ in their
\* end.
C29_Deterministic ==
    pc \in {"once", "twice"} => \A again \in deduplicateStatements(dedupIn) : again = dedupOut

\* What does hold: every run returns the same records, and the same list
\* when no two records share their start and differ in their end.
C29_SameRecords ==
    pc \in {"once", "twice"} =>
        \A again \in deduplicateStatements(dedupIn) :
            /\ Len(again) = Len(dedupOut)
            /\ { again[i] : i \in 1..Len(again) } = { dedupOut[i] : i \in 1..Len(dedupOut) }
            /\ ~SharedStart(dedupIn) => again = dedupOut

(***************************************************************************)
(* Claims about statement.Parse (SpecType).                                *)
(***************************************************************************)
\* C30: the tag a handler puts on a record (from getDeterminedStatementType,
\* PLSQL_BLOCK of an anonymous block, COMMIT, ROLLBACK, SAVEPOINT or
\* TRANSACTION of a transaction statement) is converted by statement.Parse to
\* the Type with the same string, so a tag other than UNKNOWN never becomes
\* UNKNOWN; and Parse(t.String()) = t for every Type t.
C30_ParseKeepsTags ==
    /\ pc = "converted" =>
          /\ parsedType = determinedType
          /\ parsedType \in Types
          /\ determinedType # "UNKNOWN" => parsedType # "UNKNOWN"
    /\ pc = "parsed" =>
          \A t \in Types : stmtText = String(t) => parsedType = t

\* The default tag of a transaction statement, converted.
C30_Witness ==
    /\ pc = "converted"
    /\ determinedType = "TRANSACTION"
    /\ parsedType = "TRANSACTION"
    /\ stmtText = "SET TRANSACTION READ ONLY"

====
